---- MODULE Spec2Model ----
(***************************************************************************)
(* ClearClause frontend: the session store (AnalysisContext reducer and    *)
(* its localStorage persistence), the upload stream reader (services/api)  *)
(* and the analysis lifecycle hook (hooks/useAnalysis).                    *)
(*                                                                         *)
(* JavaScript values: strings are TLA+ strings, `undefined` and `null` are *)
(* the strings "undefined" and "null", an object is a record and a missing *)
(* key reads as "undefined".  JSON.stringify drops keys whose value is     *)
(* undefined and JSON.parse gives them back as missing keys, which read as *)
(* "undefined" again, so a stored session is the same record.              *)
(***************************************************************************)
EXTENDS Integers, Sequences, FiniteSets, TLC

VARIABLES
    sessions,          \* state.sessions of the AnalysisProvider reducer
    activeSessionId,   \* state.activeSessionId
    storage,           \* localStorage['clearclause_sessions']
    mounted,           \* the provider's mount effects have run
    last,              \* store specifications: the last dispatched action and the state before it
    stream,            \* the frames and comments the backend writes to the response body
    netRest,           \* the text of the body the reader has not read yet
    buffer,            \* `buffer` of the reader uploadDocument returns
    returned,          \* every event readAllProgress has returned, in order
    lastRead,          \* the last reader.read(): what it gave and what came of it
    sent,              \* how many items of `stream` the backend has written
    net,               \* the response body: "open", "closed" (ended) or "dropped"
    pc,                \* where startAnalysis is: idle, first, loop, stopped, failed
    streamSid,         \* `sessionId` of the reader uploadDocument returns
    sid,               \* `sessionId` of startAnalysis
    dispatched,        \* the events startAnalysis has dispatched an update for
    sawError,          \* readAllProgress has returned an event that carries an error
    readAfterError,    \* the stream was read again after that
    page,              \* the analysis page of the session is mounted
    pollTimer,         \* a poll timer of the page's current polling effect is pending
    requests,          \* status requests under way: of the current effect or an earlier one
    consecutiveErrors, \* consecutiveErrors of the page's current polling effect
    pollDelay,         \* the delay of the pending poll timer in ms, 0 when none is pending
    selectedFile,      \* selectedFile of the upload page: the name of the file, or null
    duplicateError,    \* duplicateError of the upload page: null, or the name of the
                       \* file its message says is already being processed
    chatPhase,         \* AIAssistantPanel: "new" (rendered once), "mounted" or "unmounted"
    hasResult,         \* session?.result is there
    messages,          \* messages of the panel
    input,             \* input of the panel
    isSubmitting,      \* isSubmitting of the panel
    isVoiceOn,         \* isVoiceOn of the panel
    currentlyPlaying,  \* currentlyPlaying of the panel: a message id or null
    initializedFromStorage,  \* initializedFromStorage of the panel
    lastPlayedId,      \* lastPlayedIdRef.current
    chatAbort,         \* chatAbortRef.current: the call that made the controller, or null
    audioRef,          \* currentAudioSourceRef.current: the message the Audio speaks, or null
    chatStorage,       \* localStorage['clearclause_chat_' + sessionId]
    calls,             \* the invocations of submitUserMessage, in order
    speeches,          \* the playTTS calls waiting for generateSpeech
    playing,           \* the Audio elements that are playing, by message id
    recorder,          \* VoiceInput: "off", "recording" or "transcribing"
    played,            \* every playTTS call so far: the message ids, in order
    clock,             \* Date.now(), one tick per id made
    chatOp,            \* what the last submit invoked while a submission had not
                       \* returned did: "started" its turn or was "ignored" ("none")
    askFrames,         \* askQuestion: the events the backend streams as the chat response
    askRest,           \* the text of the chat response body not yet read
    askBuffer,         \* `buffer` of askQuestion
    fullText,          \* `fullText` of askQuestion
    finalSources,      \* `finalSources` of askQuestion: <<>> for null, <<sources>> when set
    chunkCalls,        \* the arguments of every onChunk call, in order
    askReturned,       \* <<>> until askQuestion returns, then <<what it returned>>
    otherPage          \* the AnalysisProvider of a second page (tab) over the same
                       \* localStorage: its state and whether it has mounted

storeVars == <<sessions, activeSessionId, storage, mounted, last>>

sseVars == <<stream, netRest, buffer, returned, lastRead>>

netVars == <<sent, net>>

uploadVars == <<pc, streamSid, sid, dispatched, sawError, readAfterError>>

pollVars == <<page, pollTimer, requests, consecutiveErrors, pollDelay>>

submitVars == <<selectedFile, duplicateError>>

panelVars == <<chatPhase, hasResult, messages, input, isSubmitting, isVoiceOn,
               currentlyPlaying, initializedFromStorage, lastPlayedId, chatAbort,
               audioRef, chatStorage, calls, speeches, playing, recorder, played,
               clock, chatOp>>

askVars == <<askFrames, askRest, askBuffer, fullText, finalSources, chunkCalls,
             askReturned>>

tabVars == <<otherPage>>

chatVars == <<panelVars, askVars, tabVars>>

lifeVars == <<sent, net, pc, streamSid, sid, dispatched, sawError, readAfterError,
              page, pollTimer, requests, consecutiveErrors, pollDelay,
              selectedFile, duplicateError, chatVars>>

vars == <<sessions, activeSessionId, storage, mounted, last,
          stream, netRest, buffer, returned, lastRead,
          sent, net, pc, streamSid, sid, dispatched, sawError, readAfterError,
          page, pollTimer, requests, consecutiveErrors, pollDelay,
          selectedFile, duplicateError, chatVars>>

-----------------------------------------------------------------------------
(* JavaScript helpers *)

Undefined == "undefined"
Null == "null"

\* obj.key, "undefined" when the key is missing
Get(obj, key) == IF key \in DOMAIN obj THEN obj[key] ELSE Undefined

\* JavaScript truthiness of a string-or-nullish value
Truthy(v) == v \notin {Undefined, Null, ""}

\* { ...a, ...b }
Spread(a, b) ==
    [k \in (DOMAIN a) \cup (DOMAIN b) |-> IF k \in DOMAIN b THEN b[k] ELSE a[k]]

\* array.filter(keep)
Filter(seq, keep(_)) == SelectSeq(seq, keep)

Some(seq, p(_)) == \E i \in 1..Len(seq) : p(seq[i])

-----------------------------------------------------------------------------
(* AnalysisContext: the reducer *)

ACTION_TYPES == [ADD_SESSION |-> "ADD_SESSION", UPDATE_SESSION |-> "UPDATE_SESSION",
            REMOVE_SESSION |-> "REMOVE_SESSION", SET_ACTIVE |-> "SET_ACTIVE",
            CLEAR_COMPLETE |-> "CLEAR_COMPLETE"]

initialState == [sessions |-> <<>>, activeSessionId |-> Null]

\* case ACTIONS.ADD_SESSION without the duplicate guard (the earlier reducer)
AddSessionUnguarded(state, payload) ==
    [state EXCEPT
        !.sessions = Append(state.sessions,
            Spread(payload,
                   [message_history |->
                       IF Truthy(Get(payload, "message"))
                       THEN <<payload.message>> ELSE <<>>])),
        !.activeSessionId = payload.session_id]

\* case ACTIONS.ADD_SESSION
AddSessionCase(state, payload) ==
    IF Some(state.sessions, LAMBDA s : s.session_id = payload.session_id)
    THEN state
    ELSE [state EXCEPT
            !.sessions = Append(state.sessions,
                Spread(payload,
                       [message_history |->
                           IF Truthy(Get(payload, "message"))
                           THEN <<payload.message>> ELSE <<>>])),
            !.activeSessionId = payload.session_id]

\* the map callback merging the payload without comparing session_id
UpdateOneAny(session, payload) == Spread(session, payload)

\* the map callback appending every truthy message, equal to the current or not
UpdateOneAlways(session, payload) ==
    IF session.session_id # payload.session_id THEN session
    ELSE LET updated == Spread(session, payload)
             history == IF "message_history" \in DOMAIN session
                        THEN session.message_history
                        ELSE IF Truthy(Get(session, "message"))
                             THEN <<session.message>> ELSE <<>>
         IN IF Truthy(Get(payload, "message"))
            THEN Spread(updated,
                        [message_history |-> Append(history, payload.message)])
            ELSE updated

\* the callback of state.sessions.map in case ACTIONS.UPDATE_SESSION
UpdateOne(session, payload) ==
    IF session.session_id # payload.session_id THEN session
    ELSE LET updated == Spread(session, payload)
             history == IF "message_history" \in DOMAIN session
                        THEN session.message_history
                        ELSE IF Truthy(Get(session, "message"))
                             THEN <<session.message>> ELSE <<>>
         IN IF Truthy(Get(payload, "message"))
               /\ Get(payload, "message") # Get(session, "message")
            THEN Spread(updated,
                        [message_history |-> Append(history, payload.message)])
            ELSE updated

\* case ACTIONS.UPDATE_SESSION
UpdateSessionCase(state, payload) ==
    [state EXCEPT !.sessions =
        [i \in 1..Len(state.sessions) |-> UpdateOne(state.sessions[i], payload)]]

\* a REMOVE_SESSION that clears the active pointer whatever it named
RemoveSessionClearsActive(state, payload) ==
    [state EXCEPT
        !.sessions = Filter(state.sessions, LAMBDA s : s.session_id # payload),
        !.activeSessionId = Null]

\* case ACTIONS.REMOVE_SESSION
RemoveSessionCase(state, payload) ==
    [state EXCEPT
        !.sessions = Filter(state.sessions, LAMBDA s : s.session_id # payload),
        !.activeSessionId = IF state.activeSessionId = payload
                            THEN Null ELSE state.activeSessionId]

\* case ACTIONS.SET_ACTIVE
SetActiveCase(state, payload) == [state EXCEPT !.activeSessionId = payload]

\* case ACTIONS.CLEAR_COMPLETE
ClearCompleteCase(state) ==
    [state EXCEPT !.sessions =
        Filter(state.sessions,
               LAMBDA s : Get(s, "status") # "complete" /\ Get(s, "status") # "error")]

analysisReducer(state, action) ==
    CASE action.type = ACTION_TYPES.ADD_SESSION -> AddSessionCase(state, action.payload)
      [] action.type = ACTION_TYPES.UPDATE_SESSION -> UpdateSessionCase(state, action.payload)
      [] action.type = ACTION_TYPES.REMOVE_SESSION -> RemoveSessionCase(state, action.payload)
      [] action.type = ACTION_TYPES.SET_ACTIVE -> SetActiveCase(state, action.payload)
      [] action.type = ACTION_TYPES.CLEAR_COMPLETE -> ClearCompleteCase(state)
      [] OTHER -> state

-----------------------------------------------------------------------------
(* AnalysisProvider: load effect, save effect, dispatch *)

Minute == 60 * 1000

\* const SESSION_TTL_MS = 30 * 60 * 1000
SESSION_TTL_MS == 30 * 60 * 1000

\* Date.now() when the provider mounts
Now == 40 * Minute

\* a created_at that is missing or null
NoTime == 0 - 1

EXPIRED_MESSAGE == "Session expired - please upload again."

\* localStorage item: absent, unparsable text, or the JSON text of an array
NoItem == [kind |-> "none", items |-> <<>>]
CorruptItem == [kind |-> "corrupt", items |-> <<>>]
Stored(list) == [kind |-> "list", items |-> list]

\* sessions.filter(s => s && s.session_id)
validSessions(list) == Filter(list, LAMBDA s : Truthy(Get(s, "session_id")))

\* a deduplication that keeps the first entry of each id
uniqueSessionsFirst(valid) ==
    Filter(valid, LAMBDA s : s = valid[CHOOSE i \in 1..Len(valid) :
                                    /\ valid[i].session_id = s.session_id
                                    /\ \A j \in 1..(i - 1) :
                                          valid[j].session_id # s.session_id])

\* new Map(); forEach(s => map.set(s.session_id, s)); Array.from(map.values()):
\* one entry per id, at the place of its first occurrence, holding its last one
uniqueSessions(valid) ==
    LET firsts == Filter([i \in 1..Len(valid) |-> i],
                         LAMBDA i : \A j \in 1..(i - 1) :
                                        valid[j].session_id # valid[i].session_id)
        lastOf(i) == CHOOSE j \in 1..Len(valid) :
                        /\ valid[j].session_id = valid[i].session_id
                        /\ \A k \in (j + 1)..Len(valid) :
                              valid[k].session_id # valid[i].session_id
    IN [n \in 1..Len(firsts) |-> valid[lastOf(firsts[n])]]

\* the stale test with >= in place of >
expireAtTtl(s, now) ==
    IF /\ Get(s, "created_at") # NoTime
       /\ Get(s, "status") \notin {"complete", "error", "expired"}
       /\ (now - s.created_at) >= SESSION_TTL_MS
    THEN Spread(s, [status |-> "error", message |-> EXPIRED_MESSAGE])
    ELSE s

\* the callback of uniqueSessions.map: auto-expire stale in-progress sessions
expireStale(s, now) ==
    IF /\ Get(s, "created_at") # NoTime
       /\ Get(s, "status") \notin {"complete", "error", "expired"}
       /\ (now - s.created_at) > SESSION_TTL_MS
    THEN Spread(s, [status |-> "error", message |-> EXPIRED_MESSAGE])
    ELSE s

cleaned(list, now) ==
    LET unique == uniqueSessions(validSessions(list))
    IN [i \in 1..Len(unique) |-> expireStale(unique[i], now)]

\* cleaned.forEach(session => dispatch(ADD_SESSION, session))
RECURSIVE dispatchAll(_, _)
dispatchAll(state, list) ==
    IF list = <<>> THEN state
    ELSE dispatchAll(analysisReducer(state, [type |-> ACTION_TYPES.ADD_SESSION,
                                             payload |-> Head(list)]),
                     Tail(list))

\* a save effect that does not run after REMOVE_SESSION
sessionsReplacedNoRemove(state, action) ==
    \/ action.type \in {ACTION_TYPES.UPDATE_SESSION, ACTION_TYPES.CLEAR_COMPLETE}
    \/ /\ action.type = ACTION_TYPES.ADD_SESSION
       /\ ~Some(state.sessions, LAMBDA s : s.session_id = action.payload.session_id)

\* the reducer returned a new state.sessions array (the save effect's dependency)
sessionsReplaced(state, action) ==
    \/ action.type \in {ACTION_TYPES.UPDATE_SESSION, ACTION_TYPES.REMOVE_SESSION,
                        ACTION_TYPES.CLEAR_COMPLETE}
    \/ /\ action.type = ACTION_TYPES.ADD_SESSION
       /\ ~Some(state.sessions, LAMBDA s : s.session_id = action.payload.session_id)

\* dispatch(action), then the save effect when state.sessions changed
Dispatch(action) ==
    LET state == [sessions |-> sessions, activeSessionId |-> activeSessionId]
        new == analysisReducer(state, action)
    IN /\ sessions' = new.sessions
       /\ activeSessionId' = new.activeSessionId
       /\ storage' = IF sessionsReplaced(state, action)
                     THEN Stored(new.sessions) ELSE storage
       /\ last' = [type |-> action.type, action |-> action, prev |-> state]

-----------------------------------------------------------------------------
(* services/api: parseSSEData and the reader uploadDocument returns.  Text is *)
(* a sequence of one-character strings.                                      *)

NL == "\n"

Whitespace == {" ", "\t", "\r", NL}

StartsWith(s, prefix) ==
    Len(s) >= Len(prefix) /\ SubSeq(s, 1, Len(prefix)) = prefix

\* String.prototype.trim
RECURSIVE Trim(_)
Trim(s) ==
    IF s = <<>> THEN s
    ELSE IF Head(s) \in Whitespace THEN Trim(Tail(s))
    ELSE IF s[Len(s)] \in Whitespace THEN Trim(SubSeq(s, 1, Len(s) - 1))
    ELSE s

\* text.split('\n')
RECURSIVE Split(_)
Split(text) ==
    IF \A i \in 1..Len(text) : text[i] # NL THEN <<text>>
    ELSE LET i == CHOOSE k \in 1..Len(text) :
                      text[k] = NL /\ \A j \in 1..(k - 1) : text[j] # NL
         IN <<SubSeq(text, 1, i - 1)>> \o Split(SubSeq(text, i + 1, Len(text)))

\* the letters a JSON object is written with, between its braces
JsonLetters == {"u", "x", "a", "c", "e"}

\* JSON.parse(s) returns (an object) rather than throwing
JsonParses(s) ==
    /\ Len(s) >= 3
    /\ s[1] = "{"
    /\ s[Len(s)] = "}"
    /\ \A i \in 2..(Len(s) - 1) : s[i] \in JsonLetters

\* the object JSON.parse(s) returns, named by the letters of its text
JsonParse(s) == SubSeq(s, 2, Len(s) - 1)

DATA_PREFIX == <<"d", "a", "t", "a", ":">>

\* one pass of the for loop of parseSSEData that keeps currentData after a push
parseLineKeep(acc, line) ==
    LET trimmed == Trim(line)
    IN IF StartsWith(trimmed, <<":">>) THEN acc
       ELSE IF trimmed = <<>>
       THEN IF acc.currentData # <<>>
            THEN [events |-> IF JsonParses(acc.currentData)
                             THEN Append(acc.events, JsonParse(acc.currentData))
                             ELSE acc.events,
                  currentData |-> acc.currentData]
            ELSE acc
       ELSE IF StartsWith(trimmed, DATA_PREFIX)
       THEN [acc EXCEPT !.currentData =
                acc.currentData \o Trim(SubSeq(trimmed, 6, Len(trimmed)))]
       ELSE acc

\* one pass of the for loop of parseSSEData
parseLine(acc, line) ==
    LET trimmed == Trim(line)
    IN IF StartsWith(trimmed, <<":">>) THEN acc
       ELSE IF trimmed = <<>>
       THEN IF acc.currentData # <<>>
            THEN [events |-> IF JsonParses(acc.currentData)
                             THEN Append(acc.events, JsonParse(acc.currentData))
                             ELSE acc.events,
                  currentData |-> <<>>]
            ELSE acc
       ELSE IF StartsWith(trimmed, DATA_PREFIX)
       THEN [acc EXCEPT !.currentData =
                acc.currentData \o Trim(SubSeq(trimmed, 6, Len(trimmed)))]
       ELSE acc

RECURSIVE parseLines(_, _)
parseLines(acc, lines) ==
    IF lines = <<>> THEN acc
    ELSE parseLines(parseLine(acc, Head(lines)), Tail(lines))

parseSSEData(text) ==
    LET acc == parseLines([events |-> <<>>, currentData |-> <<>>], Split(text))
    IN IF acc.currentData # <<>> /\ JsonParses(acc.currentData)
       THEN Append(acc.events, JsonParse(acc.currentData))
       ELSE acc.events

\* buffer.lastIndexOf('\n\n'), counted from 0; -1 when there is none
lastIndexOfBlank(buf) ==
    LET hits == {i \in 1..(Len(buf) - 1) : buf[i] = NL /\ buf[i + 1] = NL}
    IN IF hits = {} THEN 0 - 1
       ELSE (CHOOSE i \in hits : \A j \in hits : j <= i) - 1

\* readAllProgress after reader.read() gave a chunk: the events returned and
\* the buffer kept
readAllProgress(buf, chunk) ==
    LET buffer1 == buf \o chunk
        events == parseSSEData(buffer1)
        lastEventEnd == lastIndexOfBlank(buffer1)
    IN [events |-> events,
        buffer |-> IF lastEventEnd > 0
                   THEN SubSeq(buffer1, lastEventEnd + 3, Len(buffer1))
                   ELSE buffer1]

\* readProgress: the most recent event of readAllProgress (null: no event)
readProgress(events) ==
    IF Len(events) > 0 THEN <<events[Len(events)]>> ELSE <<>>

\* the frame the backend writes for an event, and a keep-alive comment
Frame(letter) == <<"d", "a", "t", "a", ":", " ", "{", letter, "}", NL, NL>>
KeepAlive == <<":", "k", NL, NL>>

-----------------------------------------------------------------------------
(* Inputs of the session store *)

MaxStored == 2
MaxHistory == 3

SessionIds == {"s1", "s2"}

RESULT == "result"

\* what the backend reports at each stage: stage, progress, message, data
Stages == <<
    [status |-> "uploading",  progress |-> 10,  message |-> "Uploading",  result |-> Null],
    [status |-> "extracting", progress |-> 40,  message |-> "Extracting", result |-> Null],
    [status |-> "analyzing",  progress |-> 75,  message |-> "Analyzing",  result |-> Null],
    [status |-> "complete",   progress |-> 100, message |-> "Complete",   result |-> RESULT] >>

Snapshots == {Stages[i] : i \in 1..Len(Stages)}

DOCUMENT == "lease.pdf"

\* the session startAnalysis adds
uploadingSession(sessionId, now) ==
    [session_id |-> sessionId, document_name |-> DOCUMENT, status |-> "uploading",
     progress |-> 10, message |-> "Document received, starting analysis...",
     created_at |-> now, result |-> Null]

\* the session AnalysisPage adds from a status snapshot of the backend
snapshotSession(sessionId, snap, createdAt) ==
    [session_id |-> sessionId, document_name |-> DOCUMENT, status |-> snap.status,
     progress |-> snap.progress, message |-> snap.message,
     created_at |-> createdAt, result |-> snap.result]

\* the updates of updateSession(sessionId, {status, progress, message, result})
progressUpdate(sessionId, snap) ==
    [session_id |-> sessionId, status |-> snap.status, progress |-> snap.progress,
     message |-> snap.message, result |-> snap.result]

\* updateSession(sessionId, { status: 'error', message })
errorUpdate(sessionId, message) ==
    [session_id |-> sessionId, status |-> "error", message |-> message]

OCR_FAILED == "OCR failed"

AddPayloads ==
    {uploadingSession(id, Now) : id \in SessionIds}
    \cup {snapshotSession(id, Stages[4], Now) : id \in SessionIds}

UpdatePayloads ==
    {progressUpdate(id, Stages[i]) : id \in SessionIds, i \in 2..4}
    \cup {errorUpdate(id, OCR_FAILED) : id \in SessionIds}

\* sessions an earlier run left in localStorage (the save effect writes the
\* whole collection; earlier versions wrote duplicate and id-less entries)
storedSession(sessionId, snap, createdAt) ==
    Spread(snapshotSession(sessionId, snap, createdAt),
           [message_history |-> <<snap.message>>])

StoredFew ==
    {storedSession(id, Stages[i], Now - 31 * Minute) :
        id \in SessionIds \cup {Null}, i \in {3, 4}}

\* a session that ended in error
FAILED == [status |-> "error", progress |-> 75, message |-> OCR_FAILED, result |-> Null]

\* stored sessions of every age around the TTL, and without created_at
StoredAges == {Now - 31 * Minute, Now - 30 * Minute, Now - 5 * Minute, NoTime}

StoredMany ==
    {storedSession(id, snap, t) :
        id \in SessionIds \cup {Null}, snap \in {Stages[3], Stages[4], FAILED},
        t \in StoredAges}

RECURSIVE SeqsUpTo(_, _)
SeqsUpTo(S, n) ==
    IF n = 0 THEN {<<>>}
    ELSE LET shorter == SeqsUpTo(S, n - 1)
         IN shorter \cup {Append(q, x) : q \in shorter, x \in S}

\* no upload stream is open
NoStream ==
    /\ stream = <<>>
    /\ netRest = <<>>
    /\ buffer = <<>>
    /\ returned = <<>>
    /\ lastRead = [kind |-> "none", from |-> 0, to |-> 0, events |-> <<>>]

\* no upload has been started and no analysis page is mounted
NoUpload ==
    /\ sent = 0
    /\ net = "open"
    /\ pc = "idle"
    /\ streamSid = Null
    /\ sid = Null
    /\ dispatched = <<>>
    /\ sawError = FALSE
    /\ readAfterError = FALSE
    /\ page = FALSE
    /\ pollTimer = FALSE
    /\ requests = {}
    /\ consecutiveErrors = 0
    /\ pollDelay = 0

\* no file is selected on the upload page
NoFile ==
    /\ selectedFile = Null
    /\ duplicateError = Null

\* askQuestion has not been called
NoAsk ==
    /\ askFrames = <<>>
    /\ askRest = <<>>
    /\ askBuffer = <<>>
    /\ fullText = <<>>
    /\ finalSources = <<>>
    /\ chunkCalls = <<>>
    /\ askReturned = <<>>

\* no assistant panel has been rendered
NoPanel ==
    /\ chatPhase = "unmounted"
    /\ hasResult = FALSE
    /\ messages = <<>>
    /\ input = <<>>
    /\ isSubmitting = FALSE
    /\ isVoiceOn = FALSE
    /\ currentlyPlaying = 0 - 1
    /\ initializedFromStorage = FALSE
    /\ lastPlayedId = 0 - 1
    /\ chatAbort = 0
    /\ audioRef = 0 - 1
    /\ chatStorage = NoItem
    /\ calls = <<>>
    /\ speeches = {}
    /\ playing = {}
    /\ recorder = "off"
    /\ played = <<>>
    /\ clock = 0
    /\ chatOp = "none"

\* no second page is open
NoOtherPage ==
    otherPage = [sessions |-> initialState.sessions,
                 activeSessionId |-> initialState.activeSessionId, mounted |-> FALSE]

NoChat == NoPanel /\ NoAsk /\ NoOtherPage

NoAction == [type |-> "none", action |-> [type |-> "none", payload |-> Null],
             prev |-> initialState]

-----------------------------------------------------------------------------
(* The session store: mount, then dispatches *)

\* the provider's mount: load effect, then the save effect
Mount ==
    /\ ~mounted
    /\ mounted' = TRUE
    /\ LET state == [sessions |-> sessions, activeSessionId |-> activeSessionId]
           new == IF storage.kind = "list"
                  THEN dispatchAll(state, cleaned(storage.items, Now))
                  ELSE state
       IN /\ sessions' = new.sessions
          /\ activeSessionId' = new.activeSessionId
          /\ storage' = Stored(new.sessions)
          /\ last' = [type |-> "mount", action |-> [type |-> "mount", payload |-> storage],
                      prev |-> state]
    /\ UNCHANGED <<sseVars, lifeVars>>

AddSession ==
    /\ mounted
    /\ \E payload \in AddPayloads :
          Dispatch([type |-> ACTION_TYPES.ADD_SESSION, payload |-> payload])
    /\ UNCHANGED <<mounted, sseVars, lifeVars>>

UpdateSession ==
    /\ mounted
    /\ \E payload \in UpdatePayloads :
          /\ \A i \in 1..Len(sessions) :
                Len(sessions[i].message_history) < MaxHistory
          /\ Dispatch([type |-> ACTION_TYPES.UPDATE_SESSION, payload |-> payload])
    /\ UNCHANGED <<mounted, sseVars, lifeVars>>

RemoveSession ==
    /\ mounted
    /\ \E id \in SessionIds :
          Dispatch([type |-> ACTION_TYPES.REMOVE_SESSION, payload |-> id])
    /\ UNCHANGED <<mounted, sseVars, lifeVars>>

SetActive ==
    /\ mounted
    /\ \E id \in SessionIds :
          Dispatch([type |-> ACTION_TYPES.SET_ACTIVE, payload |-> id])
    /\ UNCHANGED <<mounted, sseVars, lifeVars>>

ClearTerminal ==
    /\ mounted
    /\ Dispatch([type |-> ACTION_TYPES.CLEAR_COMPLETE, payload |-> Null])
    /\ UNCHANGED <<mounted, sseVars, lifeVars>>

StoreInit ==
    /\ sessions = initialState.sessions
    /\ activeSessionId = initialState.activeSessionId
    /\ mounted = FALSE
    /\ last = NoAction
    /\ NoStream
    /\ NoUpload
    /\ NoFile
    /\ NoChat
    /\ storage \in {NoItem, CorruptItem}
                   \cup {Stored(q) : q \in SeqsUpTo(StoredFew, MaxStored)}

StoreNext ==
    \/ Mount
    \/ AddSession
    \/ UpdateSession
    \/ RemoveSession
    \/ SetActive
    \/ ClearTerminal

SpecStore == StoreInit /\ [][StoreNext]_vars

\* the provider mounting over every stored collection
LoadInit ==
    /\ sessions = initialState.sessions
    /\ activeSessionId = initialState.activeSessionId
    /\ mounted = FALSE
    /\ last = NoAction
    /\ NoStream
    /\ NoUpload
    /\ NoFile
    /\ NoChat
    /\ storage \in {NoItem, CorruptItem}
                   \cup {Stored(q) : q \in SeqsUpTo(StoredMany, MaxStored)}

LoadNext == Mount

SpecLoad == LoadInit /\ [][LoadNext]_vars

\* a dispatch that replaces state.sessions while localStorage.setItem throws
\* (quota exceeded): the save effect has no try/catch, the exception leaves the
\* effect, and React, finding no error boundary, unmounts the tree
SaveThrows ==
    /\ mounted
    /\ \E action \in {[type |-> ACTION_TYPES.ADD_SESSION, payload |-> p] : p \in AddPayloads}
                  \cup {[type |-> ACTION_TYPES.UPDATE_SESSION, payload |-> p] :
                            p \in UpdatePayloads} :
          LET state == [sessions |-> sessions, activeSessionId |-> activeSessionId]
          IN /\ sessionsReplaced(state, action)
             /\ last' = [type |-> "save_failed", action |-> action, prev |-> state]
    /\ mounted' = FALSE
    /\ sessions' = initialState.sessions
    /\ activeSessionId' = initialState.activeSessionId
    /\ UNCHANGED <<storage, sseVars, lifeVars>>

QuotaNext ==
    \/ StoreNext
    \/ SaveThrows

\* the store while writes to localStorage may fail
SpecQuota == StoreInit /\ [][QuotaNext]_vars

\* the page is reloaded: the in-memory state is gone, localStorage stays, and
\* the provider will mount again
Reload ==
    /\ mounted
    /\ mounted' = FALSE
    /\ sessions' = initialState.sessions
    /\ activeSessionId' = initialState.activeSessionId
    /\ last' = [type |-> "reload", action |-> [type |-> "reload", payload |-> Null],
                prev |-> [sessions |-> sessions, activeSessionId |-> activeSessionId]]
    /\ UNCHANGED <<storage, sseVars, lifeVars>>

ReloadNext ==
    \/ StoreNext
    \/ Reload

\* the store over page reloads
SpecReload == StoreInit /\ [][ReloadNext]_vars

-----------------------------------------------------------------------------
(* The reader of the upload response body, over every stream of frames and   *)
(* keep-alive comments and every way the network cuts it into chunks         *)

MaxItems == 3

FrameItem(letter) == [kind |-> "frame", letter |-> letter]
CommentItem == [kind |-> "comment", letter |-> ""]

ItemText(item) == IF item.kind = "frame" THEN Frame(item.letter) ELSE KeepAlive

RECURSIVE StreamText(_)
StreamText(items) ==
    IF items = <<>> THEN <<>> ELSE ItemText(Head(items)) \o StreamText(Tail(items))

SseItems == {FrameItem("u"), FrameItem("x"), CommentItem}

\* the store is not in use
StoreIdle ==
    /\ sessions = initialState.sessions
    /\ activeSessionId = initialState.activeSessionId
    /\ mounted = FALSE
    /\ last = NoAction
    /\ storage = NoItem

SseInit ==
    /\ StoreIdle
    /\ NoUpload
    /\ NoFile
    /\ NoChat
    /\ stream \in SeqsUpTo(SseItems, MaxItems) \ {<<>>}
    /\ netRest = StreamText(stream)
    /\ buffer = <<>>
    /\ returned = <<>>
    /\ lastRead = [kind |-> "none", from |-> 0, to |-> 0, events |-> <<>>]

\* readAllProgress: reader.read() gives the next chunk, of any length
SseRead ==
    /\ netRest # <<>>
    /\ \E k \in 1..Len(netRest) :
          LET got == readAllProgress(buffer, SubSeq(netRest, 1, k))
              pos == Len(StreamText(stream)) - Len(netRest)
          IN /\ buffer' = got.buffer
             /\ returned' = returned \o got.events
             /\ lastRead' = [kind |-> "chunk", from |-> pos, to |-> pos + k,
                             events |-> got.events]
             /\ netRest' = SubSeq(netRest, k + 1, Len(netRest))
    /\ UNCHANGED <<stream, storeVars, lifeVars>>

\* readAllProgress: reader.read() gives done
SseDone ==
    /\ netRest = <<>>
    /\ lastRead.kind # "done"
    /\ lastRead' = [kind |-> "done", from |-> lastRead.to, to |-> lastRead.to,
                    events |-> <<>>]
    /\ UNCHANGED <<stream, netRest, buffer, returned, storeVars, lifeVars>>

SseNext ==
    \/ SseRead
    \/ SseDone

SpecSSE == SseInit /\ [][SseNext]_vars

\* the objects of the frames of `items` that lie between the places from and to
\* of the stream text (a frame lies there when all of its text does)
RECURSIVE framesBetween(_, _, _, _)
framesBetween(items, at, from, to) ==
    IF items = <<>> THEN <<>>
    ELSE LET end == at + Len(ItemText(Head(items)))
             rest == framesBetween(Tail(items), end, from, to)
         IN IF Head(items).kind = "frame" /\ from <= at /\ end <= to
            THEN <<<<Head(items).letter>>>> \o rest
            ELSE rest

\* the places of the stream text where an item ends
RECURSIVE boundaries(_, _)
boundaries(items, at) ==
    IF items = <<>> THEN {at}
    ELSE {at} \cup boundaries(Tail(items), at + Len(ItemText(Head(items))))

\* C8: however the stream is cut into chunks, the events returned by the
\* successive readAllProgress calls are, in order and once each, the frames
\* whose text has been read completely: a read that ends inside a frame (its
\* blank-line terminator not read yet) returns no event for that frame.
C8_FramesExactlyOnce ==
    returned = framesBetween(stream, 0, 0, Len(StreamText(stream)) - Len(netRest))

\* C9: a chunk made of n >= 1 complete frames, with or without comment lines
\* between them, makes one readAllProgress call return exactly those n events
\* in order, and none for a comment.
C9_MultiEventChunk ==
    (/\ lastRead.kind = "chunk"
     /\ lastRead.from \in boundaries(stream, 0)
     /\ lastRead.to \in boundaries(stream, 0)
     /\ framesBetween(stream, 0, lastRead.from, lastRead.to) # <<>>)
    => lastRead.events = framesBetween(stream, 0, lastRead.from, lastRead.to)

\* one chunk held the whole stream: two frames and a comment between them
C9_Witness ==
    /\ lastRead.kind = "chunk"
    /\ stream = <<FrameItem("u"), CommentItem, FrameItem("x")>>
    /\ lastRead.from = 0
    /\ lastRead.to = Len(StreamText(stream))
    /\ lastRead.events = << <<"u">>, <<"x">> >>

-----------------------------------------------------------------------------
(* Properties of the session store *)

current == [sessions |-> sessions, activeSessionId |-> activeSessionId]

hasId(list, id) == Some(list, LAMBDA s : s.session_id = id)

\* the session of a list that has the id
sessionOfId(list, id) ==
    list[CHOOSE i \in 1..Len(list) : list[i].session_id = id]

\* C2: no two entries of the sessions collection have the same sessionId,
\* after hydration and after any sequence of dispatched actions.
C2_UniqueSessionIds ==
    \A i, j \in 1..Len(sessions) :
        i # j => sessions[i].session_id # sessions[j].session_id

\* hydration from a store holding the same id twice, and an ADD_SESSION of an
\* id that was present
C2_Witness ==
    \/ /\ last.type = "mount"
       /\ last.action.payload.kind = "list"
       /\ Len(last.action.payload.items) = 2
       /\ last.action.payload.items[1].session_id = last.action.payload.items[2].session_id
       /\ Len(sessions) = 1
    \/ /\ last.type = ACTION_TYPES.ADD_SESSION
       /\ hasId(last.prev.sessions, last.action.payload.session_id)
       /\ Len(sessions) = 2

\* C3: AddSession is idempotent per id: adding a session twice gives the state
\* adding it once gives, and adding a session whose id is present returns the
\* state unchanged (existing entry and active pointer kept).
C3_AddIdempotent ==
    /\ \A p \in AddPayloads :
          LET once == analysisReducer(current,
                          [type |-> ACTION_TYPES.ADD_SESSION, payload |-> p])
              twice == analysisReducer(once,
                          [type |-> ACTION_TYPES.ADD_SESSION, payload |-> p])
          IN /\ twice = once
             /\ hasId(sessions, p.session_id) => once = current
    /\ (last.type = ACTION_TYPES.ADD_SESSION
        /\ hasId(last.prev.sessions, last.action.payload.session_id))
       => current = last.prev

\* an ADD_SESSION of a present id, with other fields than the existing entry and
\* while another session is the active one
C3_Witness ==
    /\ last.type = ACTION_TYPES.ADD_SESSION
    /\ \E i \in 1..Len(last.prev.sessions) :
          /\ last.prev.sessions[i].session_id = last.action.payload.session_id
          /\ last.prev.sessions[i].status # last.action.payload.status
    /\ last.prev.activeSessionId # last.action.payload.session_id

\* C4: UpdateSession(id, fields) leaves every session with another id unchanged
\* and in place, and changes neither activeSessionId nor the number of sessions.
C4_UpdateFrame ==
    last.type = ACTION_TYPES.UPDATE_SESSION =>
        /\ Len(sessions) = Len(last.prev.sessions)
        /\ activeSessionId = last.prev.activeSessionId
        /\ \A i \in 1..Len(last.prev.sessions) :
              last.prev.sessions[i].session_id # last.action.payload.session_id
                  => sessions[i] = last.prev.sessions[i]

\* an UPDATE_SESSION that changed its session while another session was present
C4_Witness ==
    /\ last.type = ACTION_TYPES.UPDATE_SESSION
    /\ Len(sessions) = 2
    /\ sessions # last.prev.sessions
    /\ \E i \in 1..2 : sessions[i].session_id # last.action.payload.session_id

isTerminal(status) == status \in {"complete", "error"}

\* the stored entry a hydrated session comes from: the last one with its id
storedEntry(items, id) ==
    items[CHOOSE j \in 1..Len(items) :
            /\ items[j].session_id = id
            /\ \A k \in (j + 1)..Len(items) : items[k].session_id # id]

\* C10: on store load a persisted non-terminal session older than 30 minutes
\* enters the store with status 'error' and the expiry message; a non-terminal
\* session of at most 30 minutes and every terminal session keep status and
\* message.
C10_TtlCoercion ==
    (last.type = "mount" /\ last.action.payload.kind = "list") =>
        \A i \in 1..Len(sessions) :
            LET e == storedEntry(last.action.payload.items, sessions[i].session_id)
            IN e.created_at # NoTime =>
                IF ~isTerminal(e.status) /\ Now - e.created_at > 30 * Minute
                THEN /\ sessions[i].status = "error"
                     /\ sessions[i].message = EXPIRED_MESSAGE
                ELSE /\ sessions[i].status = e.status
                     /\ sessions[i].message = e.message

\* a load that expired one stale session and kept one that is exactly 30
\* minutes old
C10_Witness ==
    /\ last.type = "mount"
    /\ last.action.payload.kind = "list"
    /\ Len(sessions) = 2
    /\ \E i, j \in 1..2 :
          /\ storedEntry(last.action.payload.items, sessions[i].session_id).status = "analyzing"
          /\ sessions[i].status = "error"
          /\ storedEntry(last.action.payload.items, sessions[j].session_id).created_at
                = Now - 30 * Minute
          /\ sessions[j].status = "analyzing"

\* the ids of a list of sessions that are neither missing nor null
idsOf(items) ==
    {items[i].session_id : i \in {j \in 1..Len(items) : Truthy(Get(items[j], "session_id"))}}

\* C11: hydrating from a durable store with several entries of one id, or
\* entries without an id, gives exactly one session per distinct non-null id
\* and none for the id-less entries; of the entries of one id the session kept
\* is the last one of the persisted list.
C11_DedupOnLoad ==
    (last.type = "mount" /\ last.action.payload.kind = "list") =>
        LET items == last.action.payload.items
        IN /\ {sessions[i].session_id : i \in 1..Len(sessions)} = idsOf(items)
           /\ Cardinality(idsOf(items)) = Len(sessions)
           /\ \A i \in 1..Len(sessions) :
                 LET e == storedEntry(items, sessions[i].session_id)
                 IN /\ sessions[i].created_at = e.created_at
                    /\ sessions[i].progress = e.progress
                    /\ sessions[i].result = e.result
                    /\ sessions[i].document_name = e.document_name

\* a load of two entries of one id that differ in age and progress, and a load
\* of an entry without id beside a valid one
C11_Witness ==
    /\ last.type = "mount"
    /\ last.action.payload.kind = "list"
    /\ Len(last.action.payload.items) = 2
    /\ Len(sessions) = 1
    /\ LET items == last.action.payload.items
       IN /\ items[1].session_id = items[2].session_id
          /\ items[1].created_at # items[2].created_at
          /\ items[1].progress # items[2].progress
          /\ sessions[1].created_at = items[2].created_at

\* C12: after the initial hydration and after every AddSession, UpdateSession,
\* RemoveSession and ClearTerminal the whole collection has been saved: the
\* collection in durable storage equals the in-memory sessions collection.
C12_StorageMirrorsSessions ==
    mounted => (storage.kind = "list" /\ storage.items = sessions)

\* a REMOVE_SESSION that took a session out of a store of two
C12_Witness ==
    /\ last.type = ACTION_TYPES.REMOVE_SESSION
    /\ Len(last.prev.sessions) = 2
    /\ Len(sessions) = 1
    /\ storage = Stored(sessions)

\* the session with the payload's id before the last dispatched action
updatedBefore ==
    sessionOfId(last.prev.sessions, last.action.payload.session_id)

\* C14: an UpdateSession whose message equals the session's current message
\* leaves messageHistory unchanged; one whose message differs appends exactly
\* that message at the end of messageHistory.
C14_HistoryDedupAdjacent ==
    (last.type = ACTION_TYPES.UPDATE_SESSION
     /\ hasId(last.prev.sessions, last.action.payload.session_id)) =>
        LET before == updatedBefore
            after == sessionOfId(sessions, last.action.payload.session_id)
        IN IF last.action.payload.message = before.message
           THEN after.message_history = before.message_history
           ELSE after.message_history =
                    Append(before.message_history, last.action.payload.message)

\* an UpdateSession that repeated the session's current message, on a session
\* whose history holds an earlier message too
C14_Witness ==
    /\ last.type = ACTION_TYPES.UPDATE_SESSION
    /\ hasId(last.prev.sessions, last.action.payload.session_id)
    /\ last.action.payload.message = updatedBefore.message
    /\ Len(updatedBefore.message_history) = 2

\* C13: when writing the collection to durable storage fails, the failure is
\* caught and swallowed: the provider stays mounted and the in-memory sessions
\* are what the reducer produced from the dispatched action.
C13_SaveFailureSwallowed ==
    last.type = "save_failed" =>
        /\ mounted
        /\ sessions = analysisReducer(last.prev, last.action).sessions

IsPrefix(a, b) == Len(a) <= Len(b) /\ SubSeq(b, 1, Len(a)) = a

\* C15: messageHistory is append-only: over every transition that keeps a
\* session in the store, and over a hydration from what was saved, a session's
\* messageHistory before is a prefix of its messageHistory after.
C15_HistoryAppendOnly ==
    [][/\ \A i \in 1..Len(sessions) : \A j \in 1..Len(sessions') :
              sessions[i].session_id = sessions'[j].session_id
                  => IsPrefix(sessions[i].message_history, sessions'[j].message_history)
       /\ (~mounted /\ mounted' /\ storage.kind = "list") =>
              \A j \in 1..Len(sessions') :
                  IsPrefix(storedEntry(storage.items, sessions'[j].session_id).message_history,
                           sessions'[j].message_history)]_vars

-----------------------------------------------------------------------------
(* hooks/useAnalysis: startAnalysis and pollStatus, with the polling effect  *)
(* of the analysis page, for one upload                                      *)

SID == "s1"

\* a progress value that is undefined
NoNumber == 0 - 1

stageOf(letter) == CASE letter = "u" -> 1 [] letter = "x" -> 2
                     [] letter = "a" -> 3 [] letter = "c" -> 4

\* the event object of a frame: session_id, stage, progress, message, data, error
eventOf(obj) ==
    IF obj[1] = "e"
    THEN [session_id |-> SID, stage |-> Undefined, progress |-> NoNumber,
          message |-> Undefined, data |-> Undefined, error |-> OCR_FAILED]
    ELSE LET st == Stages[stageOf(obj[1])]
         IN [session_id |-> SID, stage |-> st.status, progress |-> st.progress,
             message |-> st.message,
             data |-> IF st.result = Null THEN Undefined ELSE st.result,
             error |-> Undefined]

\* updateSession(sessionId, { status: e.stage, progress: e.progress,
\*                            message: e.message, result: e.data || null })
eventUpdate(sessionId, e) ==
    [type |-> ACTION_TYPES.UPDATE_SESSION,
     payload |-> [session_id |-> sessionId, status |-> e.stage, progress |-> e.progress,
                  message |-> e.message,
                  result |-> IF Truthy(e.data) THEN e.data ELSE Null]]

\* updateSession(sessionId, { status: 'error', message })
errorAction(sessionId, message) ==
    [type |-> ACTION_TYPES.UPDATE_SESSION, payload |-> errorUpdate(sessionId, message)]

CONNECTION_LOST == "Connection lost. Retrying..."

\* the for loop over the events of one readAllProgress, ignoring progress.error
RECURSIVE loopEventsNoErrorCheck(_, _)
loopEventsNoErrorCheck(sessionId, events) ==
    IF events = <<>> THEN [actions |-> <<>>, events |-> <<>>, done |-> FALSE]
    ELSE LET progress == eventOf(Head(events))
         IN IF progress.stage = "complete" \/ progress.stage = "error"
            THEN [actions |-> <<eventUpdate(sessionId, progress)>>,
                  events |-> <<Head(events)>>, done |-> TRUE]
            ELSE LET rest == loopEventsNoErrorCheck(sessionId, Tail(events))
                 IN [actions |-> <<eventUpdate(sessionId, progress)>> \o rest.actions,
                     events |-> <<Head(events)>> \o rest.events,
                     done |-> rest.done]

\* the for loop over the events of one readAllProgress: the updates it
\* dispatches, the events they are for, and whether it sets done
RECURSIVE loopEvents(_, _)
loopEvents(sessionId, events) ==
    IF events = <<>> THEN [actions |-> <<>>, events |-> <<>>, done |-> FALSE]
    ELSE LET progress == eventOf(Head(events))
         IN IF Truthy(progress.error)
            THEN [actions |-> <<errorAction(sessionId, progress.error)>>,
                  events |-> <<Head(events)>>, done |-> TRUE]
            ELSE IF progress.stage = "complete" \/ progress.stage = "error"
            THEN [actions |-> <<eventUpdate(sessionId, progress)>>,
                  events |-> <<Head(events)>>, done |-> TRUE]
            ELSE LET rest == loopEvents(sessionId, Tail(events))
                 IN [actions |-> <<eventUpdate(sessionId, progress)>> \o rest.actions,
                     events |-> <<Head(events)>> \o rest.events,
                     done |-> rest.done]

\* the reducer over a run of dispatches
RECURSIVE reduceAll(_, _)
reduceAll(state, actions) ==
    IF actions = <<>> THEN state
    ELSE reduceAll(analysisReducer(state, Head(actions)), Tail(actions))

sessionOf(list, id) ==
    LET hits == {i \in 1..Len(list) : list[i].session_id = id}
    IN IF hits = {} THEN [session_id |-> Null]
       ELSE list[CHOOSE i \in hits : \A j \in hits : i <= j]

\* sessionStatus of the analysis page: session?.status
sessionStatus(list, id) == Get(sessionOf(list, id), "status")

isInProgress(status) == status \in {"uploading", "extracting", "redacting", "analyzing"}

\* setTimeout(poll, 2000)
POLL_INTERVAL_MS == 2000

\* dispatches made in one synchronous run, the save effect, and the page's
\* polling effect, which runs again when sessionStatus has changed: its cleanup
\* cancels the running poll loop, and a new loop starts if in progress
DispatchRun(actions, pageNow, liveRequests, timerIfSame, errorsIfSame, delayIfSame) ==
    LET state == [sessions |-> sessions, activeSessionId |-> activeSessionId]
        new == reduceAll(state, actions)
        before == sessionStatus(sessions, SID)
        after == sessionStatus(new.sessions, SID)
    IN /\ sessions' = new.sessions
       /\ activeSessionId' = new.activeSessionId
       /\ storage' = IF actions # <<>> THEN Stored(new.sessions) ELSE storage
       /\ last' = last
       /\ page' = pageNow
       /\ IF pageNow /\ (after # before \/ ~page)
          THEN /\ pollTimer' = isInProgress(after)
               /\ pollDelay' = IF isInProgress(after) THEN POLL_INTERVAL_MS ELSE 0
               /\ consecutiveErrors' = 0
               /\ requests' = {[r EXCEPT !.live = FALSE] : r \in liveRequests}
          ELSE /\ pollTimer' = timerIfSame
               /\ pollDelay' = delayIfSame
               /\ consecutiveErrors' = errorsIfSame
               /\ requests' = liveRequests

\* where a chunk of the available text may end: inside a frame's JSON, between
\* its data line and its blank-line terminator, and after an item
chunkEnds(text) ==
    {k \in 1..Len(text) :
        \/ text[k] \in {"{", "}"}
        \/ k > 1 /\ text[k] = NL /\ text[k - 1] = NL}

\* the backend writes the next frame or comment of the stream
BackendWrite ==
    /\ pc # "idle"
    /\ net = "open"
    /\ sent < Len(stream)
    /\ sent' = sent + 1
    /\ netRest' = netRest \o ItemText(stream[sent + 1])
    /\ UNCHANGED <<stream, buffer, returned, lastRead, net, storeVars, uploadVars, pollVars>>
    /\ UNCHANGED <<submitVars, chatVars>>

\* the backend ends the response body
BackendClose ==
    /\ pc # "idle"
    /\ net = "open"
    /\ sent = Len(stream)
    /\ net' = "closed"
    /\ UNCHANGED <<sseVars, sent, storeVars, uploadVars, pollVars>>
    /\ UNCHANGED <<submitVars, chatVars>>

\* the connection drops: reader.read() rejects from now on
NetDrop ==
    /\ pc \in {"first", "loop"}
    /\ net = "open"
    /\ net' = "dropped"
    /\ UNCHANGED <<sseVars, sent, storeVars, uploadVars, pollVars>>
    /\ UNCHANGED <<submitVars, chatVars>>

\* startAnalysis up to `await uploadDocument(file)`: the response is ok, and the
\* X-Session-ID header can be read or not
UploadAccepted ==
    /\ pc = "idle"
    /\ \E h \in {SID, Null} : streamSid' = h
    /\ pc' = "first"
    /\ UNCHANGED <<sseVars, netVars, storeVars, sid, dispatched, sawError,
                   readAfterError, pollVars>>
    /\ UNCHANGED <<submitVars, chatVars>>

\* startAnalysis: uploadDocument throws (response not ok)
UploadRejected ==
    /\ pc = "idle"
    /\ pc' = "failed"
    /\ UNCHANGED <<sseVars, netVars, storeVars, streamSid, sid, dispatched, sawError,
                   readAfterError, pollVars>>
    /\ UNCHANGED <<submitVars, chatVars>>

hasError(events) == \E i \in 1..Len(events) : Truthy(eventOf(events[i]).error)

\* stream.sessionId after readAllProgress saw `events`
sessionIdAfter(known, events) ==
    IF Truthy(known) \/ events = <<>> THEN known
    ELSE eventOf(events[1]).session_id

\* startAnalysis from `await stream.readProgress()` to `return sessionId`
AfterFirstRead(events) ==
    LET firstEvent == readProgress(events)
        streamId == sessionIdAfter(streamSid, events)
        sessionId == IF Truthy(streamId) THEN streamId
                     ELSE IF firstEvent # <<>> THEN eventOf(firstEvent[1]).session_id
                     ELSE Undefined
    IN /\ streamSid' = streamId
       /\ returned' = returned \o events
       /\ readAfterError' = (readAfterError \/ sawError)
       /\ sawError' = (sawError \/ hasError(events))
       /\ IF ~Truthy(sessionId)
          THEN /\ pc' = "failed"
               /\ UNCHANGED <<sid, dispatched, storeVars, pollVars, selectedFile>>
          ELSE /\ pc' = "loop"
               /\ selectedFile' = Null
               /\ sid' = sessionId
               /\ dispatched' = dispatched \o firstEvent
               /\ DispatchRun(
                     <<[type |-> ACTION_TYPES.ADD_SESSION,
                        payload |-> uploadingSession(sessionId, Now)]>>
                     \o (IF firstEvent # <<>>
                         THEN <<eventUpdate(sessionId, eventOf(firstEvent[1]))>>
                         ELSE <<>>),
                     page, requests, pollTimer, consecutiveErrors, pollDelay)
               /\ UNCHANGED mounted

\* the first read gives a chunk, which ends at one of the places `ends`
FirstReadAt(ends) ==
    /\ pc = "first"
    /\ net # "dropped"
    /\ netRest # <<>>
    /\ \E k \in ends :
          LET got == readAllProgress(buffer, SubSeq(netRest, 1, k))
              pos == Len(StreamText(SubSeq(stream, 1, sent))) - Len(netRest)
          IN /\ buffer' = got.buffer
             /\ lastRead' = [kind |-> "chunk", from |-> pos, to |-> pos + k,
                             events |-> got.events]
             /\ netRest' = SubSeq(netRest, k + 1, Len(netRest))
             /\ AfterFirstRead(got.events)
    /\ UNCHANGED <<stream, netVars>>
    /\ UNCHANGED <<duplicateError, chatVars>>

FirstRead == FirstReadAt(chunkEnds(netRest))

\* the first read gives all the text the backend has written
FirstReadWhole == FirstReadAt({Len(netRest)})

\* the first read gives done: readAllProgress returns []
FirstReadDone ==
    /\ pc = "first"
    /\ net = "closed"
    /\ netRest = <<>>
    /\ lastRead' = [kind |-> "done", from |-> lastRead.to, to |-> lastRead.to,
                    events |-> <<>>]
    /\ AfterFirstRead(<<>>)
    /\ UNCHANGED <<stream, netRest, buffer, netVars>>
    /\ UNCHANGED <<duplicateError, chatVars>>

\* the first read rejects: the outer catch sets the error and rethrows
FirstReadThrows ==
    /\ pc = "first"
    /\ net = "dropped"
    /\ pc' = "failed"
    /\ readAfterError' = (readAfterError \/ sawError)
    /\ UNCHANGED <<sseVars, netVars, storeVars, streamSid, sid, dispatched, sawError,
                   pollVars>>
    /\ UNCHANGED <<submitVars, chatVars>>

\* the background loop: readAllProgress gives a chunk, and the for loop runs
LoopReadAt(ends) ==
    /\ pc = "loop"
    /\ net # "dropped"
    /\ netRest # <<>>
    /\ \E k \in ends :
          LET got == readAllProgress(buffer, SubSeq(netRest, 1, k))
              pos == Len(StreamText(SubSeq(stream, 1, sent))) - Len(netRest)
              run == loopEvents(sid, got.events)
          IN /\ buffer' = got.buffer
             /\ lastRead' = [kind |-> "chunk", from |-> pos, to |-> pos + k,
                             events |-> got.events]
             /\ netRest' = SubSeq(netRest, k + 1, Len(netRest))
             /\ returned' = returned \o got.events
             /\ streamSid' = sessionIdAfter(streamSid, got.events)
             /\ readAfterError' = (readAfterError \/ sawError)
             /\ sawError' = (sawError \/ hasError(got.events))
             /\ dispatched' = dispatched \o run.events
             /\ pc' = IF got.events = <<>> \/ run.done THEN "stopped" ELSE "loop"
             /\ DispatchRun(run.actions, page, requests, pollTimer, consecutiveErrors,
                            pollDelay)
    /\ UNCHANGED <<stream, netVars, mounted, sid>>
    /\ UNCHANGED <<submitVars, chatVars>>

LoopRead == LoopReadAt(chunkEnds(netRest))

\* the background loop reads all the text the backend has written
LoopReadWhole == LoopReadAt({Len(netRest)})

\* the background loop: readAllProgress gives [] at the end of the stream
LoopReadDone ==
    /\ pc = "loop"
    /\ net = "closed"
    /\ netRest = <<>>
    /\ lastRead' = [kind |-> "done", from |-> lastRead.to, to |-> lastRead.to,
                    events |-> <<>>]
    /\ readAfterError' = (readAfterError \/ sawError)
    /\ pc' = "stopped"
    /\ UNCHANGED <<stream, netRest, buffer, returned, netVars, storeVars, streamSid, sid,
                   dispatched, sawError, pollVars>>
    /\ UNCHANGED <<submitVars, chatVars>>

\* the background loop: the read rejects, the catch reports the lost connection
LoopReadThrows ==
    /\ pc = "loop"
    /\ net = "dropped"
    /\ readAfterError' = (readAfterError \/ sawError)
    /\ pc' = "stopped"
    /\ DispatchRun(<<errorAction(sid, CONNECTION_LOST)>>, page, requests, pollTimer,
                   consecutiveErrors, pollDelay)
    /\ UNCHANGED <<sseVars, netVars, mounted, streamSid, sid, dispatched, sawError>>
    /\ UNCHANGED <<submitVars, chatVars>>

\* the status snapshot the backend gives: the stage of the last frame written
backendStatus(items, n) ==
    LET frames == {i \in 1..n : items[i].kind = "frame"}
    IN IF frames = {} THEN Stages[1]
       ELSE LET l == items[CHOOSE i \in frames : \A j \in frames : j <= i].letter
            IN IF l = "e" THEN FAILED ELSE Stages[stageOf(l)]

\* if (consecutiveErrors >= 5) return
MAX_POLL_ERRORS == 5

\* a poll loop that gives up one failure earlier
keepsPollingShort(errors) == errors < MAX_POLL_ERRORS - 1

\* poll() goes on after a failure: not (consecutiveErrors >= 5)
keepsPolling(errors) == errors < MAX_POLL_ERRORS

BACKOFF_BASE_MS == 4000
BACKOFF_CAP_MS == 32000

Min(a, b) == IF a <= b THEN a ELSE b

\* a backoff that does not grow
backoffFlat(errors) == BACKOFF_BASE_MS

\* Math.min(4000 * Math.pow(2, consecutiveErrors - 1), 32000)
backoff(errors) == Min(BACKOFF_BASE_MS * 2 ^ (errors - 1), BACKOFF_CAP_MS)

\* error.code of the error getAnalysisStatus throws; undefined when fetch rejects
ErrorCodes == {"session_not_found", "rate_limited", "api_error", Undefined}

\* status requests under way at a time
MaxRequests == 2

\* the upload page navigates to the analysis page, which mounts: it sets the
\* session active and its polling effect runs
PageOpen ==
    /\ pc \in {"loop", "stopped"}
    /\ ~page
    /\ DispatchRun(<<[type |-> ACTION_TYPES.SET_ACTIVE, payload |-> sid]>>,
                   TRUE, requests, pollTimer, consecutiveErrors, pollDelay)
    /\ UNCHANGED <<sseVars, netVars, mounted, uploadVars>>
    /\ UNCHANGED <<submitVars, chatVars>>

\* a poll timer fires: poll() calls pollStatus, which requests the status
PollFire ==
    /\ page
    /\ pollTimer
    /\ Cardinality(requests) < MaxRequests
    /\ pollTimer' = FALSE
    /\ pollDelay' = 0
    /\ requests' = requests \cup {[live |-> TRUE, state |-> "sent", snap |-> Stages[1],
                                    code |-> Undefined]}
    /\ UNCHANGED <<sseVars, netVars, storeVars, uploadVars, page, consecutiveErrors>>
    /\ UNCHANGED <<submitVars, chatVars>>

\* the backend answers a status request with its status of now
BackendRespond ==
    /\ \E r \in requests :
          /\ r.state = "sent"
          /\ requests' = (requests \ {r})
                \cup {[r EXCEPT !.state = "ok", !.snap = backendStatus(stream, sent)]}
    /\ UNCHANGED <<sseVars, netVars, storeVars, uploadVars, page, pollTimer,
                   consecutiveErrors, pollDelay>>
    /\ UNCHANGED <<submitVars, chatVars>>

\* a status request fails (404, 429, another status, or the network)
RequestFails ==
    /\ \E r \in requests, code \in ErrorCodes :
          /\ r.state = "sent"
          /\ requests' = (requests \ {r})
                \cup {[r EXCEPT !.state = "failed", !.code = code]}
    /\ UNCHANGED <<sseVars, netVars, storeVars, uploadVars, page, pollTimer,
                   consecutiveErrors, pollDelay>>
    /\ UNCHANGED <<submitVars, chatVars>>

\* pollStatus after `await getAnalysisStatus`: it dispatches the update; poll()
\* then resets consecutiveErrors and sets the next timer unless cancelled
PollDeliver ==
    /\ \E r \in requests :
          /\ r.state = "ok"
          /\ DispatchRun(<<[type |-> ACTION_TYPES.UPDATE_SESSION,
                            payload |-> progressUpdate(SID, r.snap)]>>,
                         page, requests \ {r},
                         IF r.live THEN TRUE ELSE pollTimer,
                         IF r.live THEN 0 ELSE consecutiveErrors,
                         IF r.live THEN POLL_INTERVAL_MS ELSE pollDelay)
    /\ UNCHANGED <<sseVars, netVars, mounted, uploadVars>>
    /\ UNCHANGED <<submitVars, chatVars>>

\* pollStatus rethrows: poll() counts the failure, and backs off or stops
PollFailed ==
    /\ \E r \in requests :
          /\ r.state = "failed"
          /\ requests' = requests \ {r}
          /\ IF r.live
             THEN /\ consecutiveErrors' = consecutiveErrors + 1
                  /\ pollTimer' = keepsPolling(consecutiveErrors + 1)
                  /\ pollDelay' = IF keepsPolling(consecutiveErrors + 1)
                                  THEN backoff(consecutiveErrors + 1) ELSE 0
             ELSE UNCHANGED <<consecutiveErrors, pollTimer, pollDelay>>
    /\ UNCHANGED <<sseVars, netVars, storeVars, uploadVars, page>>
    /\ UNCHANGED <<submitVars, chatVars>>

\* the streams of the backend: the stages in order, up to any of them, and then
\* nothing more or an error
Pipeline == <<FrameItem("u"), FrameItem("x"), FrameItem("a"), FrameItem("c")>>

LifeStreams ==
    {SubSeq(Pipeline, 1, n) \o tail :
        n \in 0..Len(Pipeline), tail \in {<<>>, <<FrameItem("e")>>}}

\* an analysis that completes, and one that fails
PollStreams == {<<>>, Pipeline, <<FrameItem("u"), FrameItem("e")>>}

\* the provider is mounted over an empty store and no upload has started
BeforeUpload ==
    /\ sessions = initialState.sessions
    /\ activeSessionId = initialState.activeSessionId
    /\ mounted = TRUE
    /\ last = NoAction
    /\ storage = Stored(<<>>)
    /\ netRest = <<>>
    /\ buffer = <<>>
    /\ returned = <<>>
    /\ lastRead = [kind |-> "none", from |-> 0, to |-> 0, events |-> <<>>]
    /\ NoUpload
    /\ selectedFile = DOCUMENT
    /\ duplicateError = Null
    /\ NoChat

LifeInit ==
    /\ BeforeUpload
    /\ stream \in PollStreams

UploadInit ==
    /\ BeforeUpload
    /\ stream \in LifeStreams

LifeNext ==
    \/ UploadAccepted
    \/ UploadRejected
    \/ BackendWrite
    \/ BackendClose
    \/ NetDrop
    \/ FirstReadWhole
    \/ FirstReadDone
    \/ FirstReadThrows
    \/ LoopReadWhole
    \/ LoopReadDone
    \/ LoopReadThrows
    \/ PageOpen
    \/ PollFire
    \/ BackendRespond
    \/ RequestFails
    \/ PollDeliver
    \/ PollFailed

SpecLife == LifeInit /\ [][LifeNext]_vars

\* one upload while no analysis page is mounted
UploadNext ==
    \/ UploadAccepted
    \/ UploadRejected
    \/ BackendWrite
    \/ BackendClose
    \/ NetDrop
    \/ FirstRead
    \/ FirstReadDone
    \/ FirstReadThrows
    \/ LoopRead
    \/ LoopReadDone
    \/ LoopReadThrows

SpecUpload == UploadInit /\ [][UploadNext]_vars

-----------------------------------------------------------------------------
(* The upload page: file selection and handleAnalyze with its duplicate guard *)

\* the names of the files the user selects
FileNames == {DOCUMENT, "nda_template.pdf"}

\* a guard that compares the name only
isDuplicateAnyStatus(list, name) ==
    Some(list, LAMBDA s : Get(s, "document_name") = name)

\* sessions.some(s => s.document_name === selectedFile.name &&
\*                    !['complete', 'error'].includes(s.status))
isDuplicate(list, name) ==
    Some(list, LAMBDA s : /\ Get(s, "document_name") = name
                          /\ Get(s, "status") \notin {"complete", "error"})

\* handleFileSelect with a valid PDF
FileSelect ==
    /\ mounted
    /\ pc = "idle"
    /\ \E name \in FileNames : selectedFile' = name
    /\ duplicateError' = Null
    /\ UNCHANGED <<storeVars, sseVars, netVars, uploadVars, pollVars, chatVars>>

\* handleAnalyze: the guard finds a duplicate, sets duplicateError and returns
HandleAnalyzeDuplicate ==
    /\ mounted
    /\ pc = "idle"
    /\ selectedFile # Null
    /\ isDuplicate(sessions, selectedFile)
    /\ duplicateError' = selectedFile
    /\ UNCHANGED <<storeVars, sseVars, netVars, uploadVars, pollVars, selectedFile,
                   chatVars>>

\* handleAnalyze: no duplicate, startAnalysis is called and uploads the file
HandleAnalyzeUpload ==
    /\ mounted
    /\ selectedFile # Null
    /\ ~isDuplicate(sessions, selectedFile)
    /\ \/ UploadAccepted
       \/ UploadRejected

\* the upload page over every hydrated store
SubmitInit == LoadInit

SubmitNext ==
    \/ Mount
    \/ FileSelect
    \/ HandleAnalyzeDuplicate
    \/ HandleAnalyzeUpload

SpecSubmit == SubmitInit /\ [][SubmitNext]_vars

\* a session of that document name is in a non-terminal status
inFlight(list, name) ==
    \E i \in 1..Len(list) :
        list[i].document_name = name /\ ~isTerminal(list[i].status)

\* handleAnalyze ran on the selected file: it set the duplicate error or it
\* started the upload
analyzeClicked ==
    /\ pc = "idle"
    /\ selectedFile # Null
    /\ selectedFile' = selectedFile
    /\ (pc' # "idle" \/ (duplicateError' # Null /\ duplicateError' # duplicateError))

\* C19: submitting a file whose name is the documentName of a session in a
\* non-terminal status is rejected before upload: the 'already being
\* processed' error is set for that file, no upload is started and no session
\* is added; a file whose name matches no session, or only sessions in status
\* 'complete' or 'error', is not rejected and its upload is started.
C19_DuplicateGuard ==
    [][analyzeClicked =>
          IF inFlight(sessions, selectedFile)
          THEN /\ duplicateError' = selectedFile
               /\ pc' = "idle"
               /\ sessions' = sessions
               /\ UNCHANGED <<sseVars, netVars>>
          ELSE /\ pc' \in {"first", "failed"}
               /\ duplicateError' = duplicateError]_vars

\* the file was rejected while the store held a session of its name in
\* progress and another of its name that had ended
C19_Witness ==
    /\ duplicateError = DOCUMENT
    /\ selectedFile = DOCUMENT
    /\ pc = "idle"
    /\ Len(sessions) = 2
    /\ \E i, j \in 1..2 : /\ isTerminal(sessions[i].status)
                          /\ ~isTerminal(sessions[j].status)

-----------------------------------------------------------------------------
(* Properties of the analysis lifecycle *)

theSession == sessionOf(sessions, SID)

\* C1: terminal states are absorbing: once the session's status is 'complete'
\* or 'error', no stream event and no poll response changes its status or
\* clears its result, however the upload loop and the polling interleave.
C1_TerminalAbsorbing ==
    [][isTerminal(sessionStatus(sessions, SID)) =>
          /\ sessionStatus(sessions', SID) = sessionStatus(sessions, SID)
          /\ Get(sessionOf(sessions', SID), "result") = Get(theSession, "result")]_vars

\* C5: the controller dispatches one UpdateSession per event received from the
\* upload stream, in arrival order, the events of the first chunk included:
\* while the ingestion loop is running, the events dispatched are exactly the
\* events readAllProgress has returned so far.
C5_EveryEventDispatched ==
    pc = "loop" => dispatched = returned

\* C6: once an event with an error field has been returned (the first event
\* included), the session's status is 'error' with that error as message, the
\* stream is not read again, and no later event is applied.
C6_ErrorStopsIngestion ==
    sawError =>
        /\ sessionStatus(sessions, SID) = "error"
        /\ Get(theSession, "message") = OCR_FAILED
        /\ ~readAfterError
        /\ \A i \in 1..Len(dispatched) :
              Truthy(eventOf(dispatched[i]).error) => i = Len(dispatched)

\* C7: after the ingestion loop has stopped the session is in a terminal
\* status: a stream that ends, or a connection that drops, before a terminal
\* event was applied is reported as an error.
C7_StoppedMeansTerminal ==
    pc = "stopped" => isTerminal(sessionStatus(sessions, SID))

\* C20: when the upload's stream has delivered uploading/10, extracting/40,
\* analyzing/75 and complete/100 with data, and the ingestion loop has stopped,
\* the store holds exactly one session, with status 'complete', progress 100,
\* a non-null result and a messageHistory of exactly 4 entries.
C20_EndToEndScenario ==
    (/\ stream = Pipeline
     /\ sent = Len(stream)
     /\ netRest = <<>>
     /\ net # "dropped"
     /\ pc = "stopped") =>
        /\ Len(sessions) = 1
        /\ theSession.status = "complete"
        /\ theSession.progress = 100
        /\ theSession.result # Null
        /\ Len(theSession.message_history) = 4

-----------------------------------------------------------------------------
(* Properties of the status polling *)

\* poll() of the running loop handles the failure of its status request r,
\* in a step of the poll loop alone
handlesFailure(r) ==
    /\ r \in requests
    /\ r.live
    /\ r.state = "failed"
    /\ requests' = requests \ {r}
    /\ UNCHANGED <<sseVars, uploadVars, page>>

\* poll() of the running loop handles the answer to its status request r
handlesAnswer(r) ==
    /\ r \in requests
    /\ r.live
    /\ r.state = "ok"
    /\ r \notin requests'
    /\ UNCHANGED <<sseVars, uploadVars, page>>

\* C16: after 5 consecutive poll failures the polling loop has no poll
\* scheduled and none under way; handling a failure dispatches no update, so
\* the session keeps its status; after fewer than 5 consecutive failures the
\* next poll is scheduled.
C16_StopsAfterFiveFailures ==
    /\ [](consecutiveErrors >= 5 => (~pollTimer /\ \A r \in requests : ~r.live))
    /\ [][\A r \in requests :
            handlesFailure(r) =>
                /\ sessions' = sessions
                /\ consecutiveErrors' < 5 => pollTimer']_vars

\* the loop has stopped after its fifth failure, on a session still in progress
C16_Witness ==
    /\ page
    /\ consecutiveErrors = 5
    /\ ~pollTimer
    /\ isInProgress(sessionStatus(sessions, SID))

\* C17: the retry after the k-th consecutive failed poll is scheduled
\* min(4 * 2^(k-1), 32) seconds later (4, 8, 16, 32 s for k = 1..4), never more
\* than 32 s, and a successful poll resets the count of consecutive failures
\* to zero.
C17_BackoffDelays ==
    /\ [](/\ pollDelay <= 32 * 1000
          /\ (pollTimer /\ consecutiveErrors >= 1) =>
                pollDelay = (CASE consecutiveErrors = 1 -> 4
                               [] consecutiveErrors = 2 -> 8
                               [] consecutiveErrors = 3 -> 16
                               [] OTHER -> 32) * 1000)
    /\ [][\A r \in requests : handlesAnswer(r) => consecutiveErrors' = 0]_vars

\* the retry after the fourth consecutive failure is pending, 32 s later
C17_Witness ==
    /\ pollTimer
    /\ consecutiveErrors = 4
    /\ pollDelay = 32 * 1000

\* C18: a status request that fails with HTTP 404 ends the polling: handling
\* that failure schedules no further poll for the session.
C18_NotFoundStopsPolling ==
    [][\A r \in requests :
          (handlesFailure(r) /\ r.code = "session_not_found") => ~pollTimer']_vars

-----------------------------------------------------------------------------
(* components/chat/AIAssistantPanel and VoiceInput: the chat of one session. *)
(* A message is a record; a property that is missing reads as FALSE          *)
(* (isComplete, isError) or as null (sources).  Ids are numbers: the         *)
(* welcome message has WELCOME_ID, the others the clock's reading.           *)

MaxCalls == 2

MaxMessages == 3

WELCOME_ID == 0

NoId == 0 - 1

NoCall == 0

\* every variable of the session store, the upload and the analysis page
appVars == <<storeVars, sseVars, netVars, uploadVars, pollVars, submitVars>>

\* what the user types, what a suggested-question button asks, and what
\* transcribeAudio returns
Texts == {<<" ">>, <<"q", " ">>}

SuggestedQuestions == {<<"s">>}

Transcripts == {<<" ">>, <<" ", "r">>}

\* the text deltas the backend streams as its answer to `question`
AnswerDeltas(question) == << <<"A">> \o question >>

\* the sources payload the backend streams after the text
AnswerSources(question) == <<"S">> \o question

RECURSIVE Concat(_)
Concat(texts) == IF texts = <<>> THEN <<>> ELSE Head(texts) \o Concat(Tail(texts))

NoSources == <<>>

Message(id, role, content, isComplete, isError, sources) ==
    [id |-> id, role |-> role, content |-> content, isComplete |-> isComplete,
     isError |-> isError, sources |-> sources]

welcomeMsg == Message(WELCOME_ID, "assistant", <<"H", "i">>, FALSE, FALSE, NoSources)

userMessage(id, textContent) ==
    Message(id, "user", textContent, FALSE, FALSE, NoSources)

placeholder(assistantId) ==
    Message(assistantId, "assistant", <<>>, FALSE, FALSE, NoSources)

EXPIRED_422 == <<"4", "2", "2">>

GENERIC_ERROR == <<"e", "r", "r">>

TTS_EXPIRED == <<"v", "x">>

errorMessage(id, content, isComplete) ==
    Message(id, "assistant", content, isComplete, TRUE, NoSources)

\* the chat histories an earlier life of the panel has persisted
StoredChats ==
    LET u(i) == userMessage(i, <<"q">>)
        a(i) == Message(i, "assistant", <<"A", "q">>, TRUE, FALSE, <<"S", "q">>)
    IN {<<welcomeMsg>>,
        <<welcomeMsg, u(1), a(2)>>,
        <<welcomeMsg, u(1), a(2), u(3), a(4)>>,
        <<u(1), a(2)>>,
        <<welcomeMsg, u(1), placeholder(2)>>,
        <<u(1), placeholder(2), errorMessage(3, GENERIC_ERROR, TRUE)>>}

\* Date.now() of a panel that starts after every stored message was made
FirstTick == 5

\* an error askQuestion throws or passes on
Err(name, code, message) == [name |-> name, code |-> code, message |-> message]

AbortError == Err("AbortError", Undefined, "aborted")

NetworkError == Err("TypeError", Undefined, "Failed to fetch")

\* the HTTP statuses of the answers to POST /api/chat; 0: no answer yet
NO_STATUS == 0

HTTP_OK == 200

HTTP_NOT_FOUND == 404

HTTP_TOO_MANY == 429

ChatStatuses == {HTTP_OK, HTTP_NOT_FOUND, HTTP_TOO_MANY}

\* body.detail of an error answer: missing, or a text that names the status 422
Details == {Undefined, "422 Unprocessable Entity"}

\* err.message?.includes('422')
includes422(message) == message = "422 Unprocessable Entity"

\* askQuestion: the error thrown for a response that is not ok, once its body
\* was read (detail) or could not be parsed (Undefined)
askQuestionError(status, detail) ==
    IF status = HTTP_TOO_MANY
    THEN Err("Error", "rate_limited", "You are asking questions too quickly.")
    ELSE Err("Error", "api_error",
             IF Truthy(detail) THEN detail ELSE "Chat request failed")

\* submitUserMessage catch: the content of the error message
errorContent(err) == IF includes422(err.message) THEN EXPIRED_422 ELSE GENERIC_ERROR

Call(textContent) ==
    [text |-> textContent, pc |-> "import", assistantId |-> NoId, aborted |-> FALSE,
     got |-> 0, status |-> NO_STATUS, code |-> Null]

\* the request of the call is issued and has neither completed nor been aborted
outstanding(c) == c.pc \in {"fetch", "errbody", "stream"} /\ ~c.aborted

\* submitUserMessage(c.text) has not returned
inProgress(c) == c.pc \in {"import", "fetch", "errbody", "stream"}

Live == chatPhase = "mounted"

\* the welcome effect that inserts whether or not the restore has finished
withWelcomeUnflagged(msgs, result, initialized) ==
    IF result /\ Len(msgs) = 0 THEN <<welcomeMsg>> ELSE msgs

\* the 'Initialize first message' effect: the messages it leaves
withWelcome(msgs, result, initialized) ==
    IF ~result \/ ~initialized THEN msgs
    ELSE IF Len(msgs) = 0 THEN <<welcomeMsg>> ELSE msgs

\* the auto-play condition without the isComplete test
shouldPlayUnsealed(lastMessage, voice, playingNow, lastPlayed) ==
    /\ lastMessage.role = "assistant"
    /\ lastMessage.id # WELCOME_ID
    /\ voice
    /\ ~lastMessage.isError
    /\ lastMessage.id # playingNow
    /\ lastMessage.id # lastPlayed

\* the condition of the auto-play effect
shouldPlay(lastMessage, voice, playingNow, lastPlayed) ==
    /\ lastMessage.role = "assistant"
    /\ lastMessage.id # WELCOME_ID
    /\ lastMessage.isComplete
    /\ voice
    /\ ~lastMessage.isError
    /\ lastMessage.id # playingNow
    /\ lastMessage.id # lastPlayed

\* the render after setMessages(msgs): the messages the welcome effect leaves
\* and the message the auto-play effect passes to playTTS (NoId: none)
Rendered(msgs, result, initialized, voice, playingNow, lastPlayed) ==
    LET shown == withWelcome(msgs, result, initialized)
    IN [messages |-> shown,
        play |-> IF /\ Len(shown) > 0
                    /\ shouldPlay(shown[Len(shown)], voice, playingNow, lastPlayed)
                 THEN shown[Len(shown)].id ELSE NoId]

\* setMessages(msgs) and setCurrentlyPlaying(playingNow) in one batch, the
\* render that follows and its effects (persist, welcome, auto-play);
\* `waiting` are the playTTS calls that go on waiting for generateSpeech
Show(msgs, playingNow, waiting) ==
    LET r == Rendered(msgs, hasResult, initializedFromStorage, isVoiceOn, playingNow,
                      lastPlayedId)
    IN /\ messages' = r.messages
       /\ chatStorage' = Stored(r.messages)
       /\ IF r.play # NoId
          THEN /\ lastPlayedId' = r.play
               /\ currentlyPlaying' = r.play
               /\ speeches' = waiting \cup {r.play}
               /\ played' = Append(played, r.play)
          ELSE /\ currentlyPlaying' = playingNow
               /\ speeches' = waiting
               /\ UNCHANGED <<lastPlayedId, played>>

\* the state setters of an unmounted panel do nothing
Frozen(waiting) ==
    /\ speeches' = waiting
    /\ UNCHANGED <<messages, chatStorage, lastPlayedId, currentlyPlaying, played>>

\* prev.map(m => m.id === id ? { ...m, ...patch } : m)
mapMessage(msgs, id, patch) ==
    [i \in 1..Len(msgs) |-> IF msgs[i].id = id THEN Spread(msgs[i], patch) ELSE msgs[i]]

\* controller.abort() that aborts nothing
abortNothing(cs, ref) == cs

\* chatAbortRef.current.abort(): the request of that call is aborted
abortCall(cs, ref) ==
    IF ref # NoCall /\ outstanding(cs[ref])
    THEN [cs EXCEPT ![ref].aborted = TRUE] ELSE cs

\* the panel has rendered once
FirstRender ==
    /\ StoreIdle
    /\ NoStream
    /\ NoUpload
    /\ NoFile
    /\ NoAsk
    /\ NoOtherPage
    /\ chatPhase = "new"
    /\ hasResult \in BOOLEAN
    /\ messages = <<>>
    /\ input = <<>>
    /\ isSubmitting = FALSE
    /\ currentlyPlaying = NoId
    /\ initializedFromStorage = FALSE
    /\ lastPlayedId = NoId
    /\ chatAbort = NoCall
    /\ audioRef = NoId
    /\ calls = <<>>
    /\ speeches = {}
    /\ playing = {}
    /\ recorder = "off"
    /\ played = <<>>
    /\ clock = FirstTick
    /\ chatOp = "none"

\* the effects of the first commit (restore, persist, welcome, auto-play, each
\* with messages = [] and initializedFromStorage = false) and the renders that
\* follow setMessages(restored) and setInitializedFromStorage(true)
ChatMount ==
    /\ chatPhase = "new"
    /\ LET restored == IF chatStorage.kind = "list" THEN chatStorage.items ELSE <<>>
           first == withWelcome(<<>>, hasResult, FALSE)
           set == IF first # <<>> THEN first ELSE restored
           mark == IF Len(restored) > 0 THEN restored[Len(restored)].id ELSE NoId
           r == Rendered(set, hasResult, TRUE, isVoiceOn, NoId, mark)
       IN /\ messages' = r.messages
          /\ chatStorage' = Stored(r.messages)
          /\ IF r.play # NoId
             THEN /\ lastPlayedId' = r.play
                  /\ currentlyPlaying' = r.play
                  /\ speeches' = {r.play}
                  /\ played' = Append(played, r.play)
             ELSE /\ lastPlayedId' = mark
                  /\ UNCHANGED <<currentlyPlaying, speeches, played>>
    /\ initializedFromStorage' = TRUE
    /\ chatPhase' = "mounted"
    /\ UNCHANGED <<appVars, askVars, tabVars, hasResult, input, isSubmitting, isVoiceOn, chatAbort, audioRef,
                   calls, playing, recorder, clock, chatOp>>

\* the analysis completes while the panel is shown: the welcome effect runs
\* again, the auto-play effect only if the messages changed
ResultArrives ==
    /\ Live
    /\ ~hasResult
    /\ hasResult' = TRUE
    /\ LET shown == withWelcome(messages, TRUE, initializedFromStorage)
       IN IF shown # messages
          THEN /\ messages' = shown
               /\ chatStorage' = Stored(shown)
               /\ UNCHANGED <<lastPlayedId, currentlyPlaying, speeches, played>>
          ELSE Frozen(speeches)
    /\ UNCHANGED <<appVars, askVars, tabVars, chatPhase, input, isSubmitting, isVoiceOn,
                   initializedFromStorage, chatAbort, audioRef, calls, playing, recorder,
                   clock, chatOp>>

\* onChange of the text input, which is disabled while isSubmitting
TypeInput ==
    /\ Live
    /\ ~isSubmitting
    /\ \E t \in Texts : input' = t
    /\ UNCHANGED <<appVars, askVars, tabVars, chatPhase, hasResult, messages, isSubmitting, isVoiceOn,
                   currentlyPlaying, initializedFromStorage, lastPlayedId, chatAbort,
                   audioRef, chatStorage, calls, speeches, playing, recorder, played,
                   clock, chatOp>>

\* a submission has not returned when submit is invoked
busy == \E i \in 1..Len(calls) : inProgress(calls[i])

\* submitUserMessage(textContent) up to `await import(...)`, in a render whose
\* isSubmitting was `submitting`
submitUserMessage(textContent, submitting) ==
    IF submitting
    THEN /\ chatOp' = IF busy THEN "ignored" ELSE chatOp
         /\ UNCHANGED <<input, isSubmitting, calls, clock>>
         /\ Frozen(speeches)
    ELSE /\ Len(calls) < MaxCalls
         /\ chatOp' = IF busy THEN "started" ELSE chatOp
         /\ calls' = Append(calls, Call(textContent))
         /\ clock' = clock + 1
         /\ IF Live
            THEN /\ Show(Append(messages, userMessage(clock, textContent)),
                         currentlyPlaying, speeches)
                 /\ input' = <<>>
                 /\ isSubmitting' = TRUE
            ELSE /\ Frozen(speeches)
                 /\ UNCHANGED <<input, isSubmitting>>

\* onSubmit of the form
HandleSubmit ==
    /\ Live
    /\ IF Trim(input) = <<>> \/ isSubmitting
       THEN /\ chatOp' = IF busy /\ Trim(input) # <<>> THEN "ignored" ELSE chatOp
            /\ UNCHANGED <<input, isSubmitting, calls, clock>>
            /\ Frozen(speeches)
       ELSE submitUserMessage(Trim(input), isSubmitting)
    /\ UNCHANGED <<appVars, askVars, tabVars, chatPhase, hasResult, isVoiceOn, initializedFromStorage,
                   chatAbort, audioRef, playing, recorder>>

\* onClick of a suggested question, shown while messages.length === 1
SuggestedClick ==
    /\ Live
    /\ Len(messages) = 1
    /\ \E q \in SuggestedQuestions : submitUserMessage(q, isSubmitting)
    /\ UNCHANGED <<appVars, askVars, tabVars, chatPhase, hasResult, isVoiceOn, initializedFromStorage,
                   chatAbort, audioRef, playing, recorder>>

\* submitUserMessage after `await import(...)`: the earlier controller is
\* aborted, the placeholder is appended and askQuestion sends the request
SubmitIssue ==
    \E c \in 1..Len(calls) :
        /\ calls[c].pc = "import"
        /\ calls' = [abortCall(calls, chatAbort) EXCEPT
                        ![c].pc = "fetch", ![c].assistantId = clock]
        /\ chatAbort' = c
        /\ clock' = clock + 1
        /\ IF Live
           THEN Show(Append(messages, placeholder(clock)), currentlyPlaying, speeches)
           ELSE Frozen(speeches)
        /\ UNCHANGED <<appVars, askVars, tabVars, chatPhase, hasResult, input, isSubmitting, isVoiceOn,
                       initializedFromStorage, audioRef, playing, recorder, chatOp>>

\* the catch and the finally of submitUserMessage for call c
Fails(c, err, status) ==
    /\ calls' = [calls EXCEPT ![c].code = err.code,
                              ![c].status = status,
                              ![c].pc = IF err.name = "AbortError"
                                        THEN "cancelled" ELSE "failed"]
    /\ IF err.name = "AbortError"
       THEN /\ Frozen(speeches)
            /\ UNCHANGED clock
       ELSE /\ clock' = clock + 1
            /\ IF Live
               THEN Show(Append(messages, errorMessage(clock, errorContent(err), TRUE)),
                         currentlyPlaying, speeches)
               ELSE Frozen(speeches)
    /\ isSubmitting' = IF Live THEN FALSE ELSE isSubmitting
    /\ UNCHANGED <<appVars, askVars, tabVars, chatPhase, hasResult, input, isVoiceOn,
                   initializedFromStorage, chatAbort, audioRef, playing, recorder, chatOp>>

\* askQuestion: fetch settles
ChatResponse ==
    \E c \in 1..Len(calls), status \in ChatStatuses :
        /\ calls[c].pc = "fetch"
        /\ ~calls[c].aborted
        /\ IF status = HTTP_TOO_MANY THEN Fails(c, askQuestionError(status, Undefined), status)
           ELSE /\ calls' = [calls EXCEPT ![c].status = status,
                                          ![c].pc = IF status = HTTP_OK
                                                    THEN "stream" ELSE "errbody"]
                /\ Frozen(speeches)
                /\ UNCHANGED <<appVars, askVars, tabVars, chatPhase, hasResult, input, isSubmitting,
                               isVoiceOn, initializedFromStorage, chatAbort, audioRef,
                               playing, recorder, clock, chatOp>>

\* askQuestion: response.json() of a response that is not ok settles
ChatErrorBody ==
    \E c \in 1..Len(calls), detail \in Details :
        /\ calls[c].pc = "errbody"
        /\ ~calls[c].aborted
        /\ Fails(c, askQuestionError(calls[c].status, detail), calls[c].status)

\* the abort reaches askQuestion: fetch or reader.read() rejects with an
\* AbortError; response.json() rejects too, inside the try that ignores it
ChatAborted ==
    \E c \in 1..Len(calls) :
        /\ calls[c].aborted
        /\ \/ /\ calls[c].pc \in {"fetch", "stream"}
              /\ Fails(c, AbortError, calls[c].status)
           \/ /\ calls[c].pc = "errbody"
              /\ Fails(c, askQuestionError(calls[c].status, Undefined), calls[c].status)

\* askQuestion reads the next event of the stream: a text delta (onChunk with
\* the text so far) or the sources (onSources)
ChatChunk ==
    \E c \in 1..Len(calls) :
        LET deltas == AnswerDeltas(calls[c].text)
            k == calls[c].got + 1
            patch == IF k <= Len(deltas)
                     THEN [content |-> Concat(SubSeq(deltas, 1, k))]
                     ELSE [sources |-> AnswerSources(calls[c].text)]
        IN /\ calls[c].pc = "stream"
           /\ ~calls[c].aborted
           /\ k <= Len(deltas) + 1
           /\ calls' = [calls EXCEPT ![c].got = k]
           /\ IF Live
              THEN Show(mapMessage(messages, calls[c].assistantId, patch),
                        currentlyPlaying, speeches)
              ELSE Frozen(speeches)
           /\ UNCHANGED <<appVars, askVars, tabVars, chatPhase, hasResult, input, isSubmitting, isVoiceOn,
                          initializedFromStorage, chatAbort, audioRef, playing, recorder,
                          clock, chatOp>>

\* reader.read() rejects: the connection broke
ChatStreamBreaks ==
    \E c \in 1..Len(calls) :
        /\ calls[c].pc = "stream"
        /\ ~calls[c].aborted
        /\ Fails(c, NetworkError, calls[c].status)

\* the stream ends, askQuestion returns and the placeholder is sealed
ChatStreamEnd ==
    \E c \in 1..Len(calls) :
        LET deltas == AnswerDeltas(calls[c].text)
            response == [answer |-> Concat(deltas),
                         sources |-> AnswerSources(calls[c].text)]
        IN /\ calls[c].pc = "stream"
           /\ ~calls[c].aborted
           /\ calls[c].got = Len(deltas) + 1
           /\ calls' = [calls EXCEPT ![c].pc = "sealed"]
           /\ IF Live
              THEN Show(mapMessage(messages, calls[c].assistantId,
                                   [content |-> response.answer,
                                    sources |-> response.sources,
                                    isComplete |-> TRUE]),
                        currentlyPlaying, speeches)
              ELSE Frozen(speeches)
           /\ isSubmitting' = IF Live THEN FALSE ELSE isSubmitting
           /\ UNCHANGED <<appVars, askVars, tabVars, chatPhase, hasResult, input, isVoiceOn,
                          initializedFromStorage, chatAbort, audioRef, playing, recorder,
                          clock, chatOp>>

\* VoiceInput: the microphone button starts a recording
StartRecording ==
    /\ Live
    /\ ~isSubmitting
    /\ recorder = "off"
    /\ recorder' = "recording"
    /\ UNCHANGED <<appVars, askVars, tabVars, chatPhase, hasResult, messages, input, isSubmitting, isVoiceOn,
                   currentlyPlaying, initializedFromStorage, lastPlayedId, chatAbort,
                   audioRef, chatStorage, calls, speeches, playing, played, clock, chatOp>>

\* handleTranscription up to `await transcribeAudio(...)`
beginTranscription ==
    /\ recorder' = "transcribing"
    /\ isSubmitting' = TRUE
    /\ UNCHANGED <<appVars, askVars, tabVars, chatPhase, hasResult, messages, input, isVoiceOn,
                   currentlyPlaying, initializedFromStorage, lastPlayedId, chatAbort,
                   audioRef, chatStorage, calls, speeches, playing, played, clock, chatOp>>

\* VoiceInput: the button stops the recording; onstop calls onTranscription
StopRecording ==
    /\ Live
    /\ ~isSubmitting
    /\ recorder = "recording"
    /\ beginTranscription

\* VoiceInput: the recorder stops because its microphone track ended; onstop
\* calls onTranscription
TrackEnded ==
    /\ Live
    /\ isSubmitting
    /\ recorder = "recording"
    /\ beginTranscription

\* handleTranscription: transcribeAudio returns; the submitUserMessage called
\* is the one of the render in which the recording started, whose isSubmitting
\* was false
TranscribeDone ==
    /\ recorder = "transcribing"
    /\ recorder' = "off"
    /\ \E text \in Transcripts :
          IF Trim(text) # <<>>
          THEN submitUserMessage(Trim(text), FALSE)
          ELSE /\ isSubmitting' = IF Live THEN FALSE ELSE isSubmitting
               /\ Frozen(speeches)
               /\ UNCHANGED <<input, calls, clock, chatOp>>
    /\ UNCHANGED <<appVars, askVars, tabVars, chatPhase, hasResult, isVoiceOn, initializedFromStorage,
                   chatAbort, audioRef, playing>>

\* toggleVoice
ToggleVoice ==
    /\ Live
    /\ isVoiceOn' = ~isVoiceOn
    /\ IF isVoiceOn /\ audioRef # NoId
       THEN /\ playing' = playing \ {audioRef}
            /\ currentlyPlaying' = NoId
       ELSE UNCHANGED <<playing, currentlyPlaying>>
    /\ UNCHANGED <<appVars, askVars, tabVars, chatPhase, hasResult, messages, input, isSubmitting,
                   initializedFromStorage, lastPlayedId, chatAbort, audioRef, chatStorage,
                   calls, speeches, recorder, played, clock, chatOp>>

\* playTTS: generateSpeech returns, the earlier Audio is paused and the new
\* one plays
SpeechResolves ==
    \E m \in speeches :
        /\ speeches' = speeches \ {m}
        /\ playing' = (playing \ {audioRef}) \cup {m}
        /\ audioRef' = m
        /\ UNCHANGED <<appVars, askVars, tabVars, chatPhase, hasResult, messages, input, isSubmitting,
                       isVoiceOn, currentlyPlaying, initializedFromStorage, lastPlayedId,
                       chatAbort, chatStorage, calls, recorder, played, clock, chatOp>>

\* playTTS: generateSpeech throws
SpeechFails ==
    \E m \in speeches, code \in {"session_not_found", Undefined} :
        /\ IF code = "session_not_found"
           THEN /\ Len(messages) < MaxMessages
                /\ clock' = clock + 1
                /\ IF Live
                   THEN Show(Append(messages, errorMessage(clock, TTS_EXPIRED, FALSE)),
                             NoId, speeches \ {m})
                   ELSE Frozen(speeches \ {m})
           ELSE /\ speeches' = speeches \ {m}
                /\ currentlyPlaying' = IF Live THEN NoId ELSE currentlyPlaying
                /\ UNCHANGED <<messages, chatStorage, lastPlayedId, played, clock>>
        /\ UNCHANGED <<appVars, askVars, tabVars, chatPhase, hasResult, input, isSubmitting, isVoiceOn,
                       initializedFromStorage, chatAbort, audioRef, calls, playing,
                       recorder, chatOp>>

\* audio.onended
AudioEnded ==
    \E m \in playing :
        /\ playing' = playing \ {m}
        /\ currentlyPlaying' = IF Live THEN NoId ELSE currentlyPlaying
        /\ UNCHANGED <<appVars, askVars, tabVars, chatPhase, hasResult, messages, input, isSubmitting,
                       isVoiceOn, initializedFromStorage, lastPlayedId, chatAbort,
                       audioRef, chatStorage, calls, speeches, recorder, played, clock,
                       chatOp>>

\* the cleanup of the panel: the Audio of the ref is paused and the controller
\* of the ref is aborted
ChatUnmount ==
    /\ Live
    /\ chatPhase' = "unmounted"
    /\ playing' = playing \ {audioRef}
    /\ calls' = abortCall(calls, chatAbort)
    /\ UNCHANGED <<appVars, askVars, tabVars, hasResult, messages, input, isSubmitting, isVoiceOn,
                   currentlyPlaying, initializedFromStorage, lastPlayedId, chatAbort,
                   audioRef, chatStorage, speeches, recorder, played, clock, chatOp>>

\* the chat with typed, suggested and spoken questions, read aloud off
ChatInit ==
    /\ FirstRender
    /\ isVoiceOn = FALSE
    /\ chatStorage = NoItem

ChatNext ==
    \/ ChatMount
    \/ ResultArrives
    \/ TypeInput
    \/ HandleSubmit
    \/ SuggestedClick
    \/ SubmitIssue
    \/ ChatResponse
    \/ ChatErrorBody
    \/ ChatAborted
    \/ ChatChunk
    \/ ChatStreamBreaks
    \/ ChatStreamEnd
    \/ StartRecording
    \/ StopRecording
    \/ TrackEnded
    \/ TranscribeDone
    \/ ChatUnmount

SpecChat == ChatInit /\ [][ChatNext]_vars

\* the chat with typed and suggested questions and the answers read aloud,
\* over what an earlier life of the panel left in storage
VoiceInit ==
    /\ FirstRender
    /\ isVoiceOn \in BOOLEAN
    /\ chatStorage \in {NoItem, CorruptItem} \cup {Stored(q) : q \in StoredChats \cup {<<>>}}

VoiceNext ==
    \/ ChatMount
    \/ ResultArrives
    \/ TypeInput
    \/ HandleSubmit
    \/ SuggestedClick
    \/ SubmitIssue
    \/ ChatResponse
    \/ ChatErrorBody
    \/ ChatAborted
    \/ ChatChunk
    \/ ChatStreamBreaks
    \/ ChatStreamEnd
    \/ ToggleVoice
    \/ SpeechResolves
    \/ SpeechFails
    \/ AudioEnded
    \/ ChatUnmount

SpecVoice == VoiceInit /\ [][VoiceNext]_vars

-----------------------------------------------------------------------------
(* Properties of the chat *)

sealedAnswers ==
    {i \in 1..Len(messages) :
        /\ messages[i].role = "assistant"
        /\ messages[i].isComplete
        /\ ~messages[i].isError
        /\ messages[i].id >= FirstTick}

\* C22: a submit issued while an earlier submit is still in flight starts its
\* turn and cancels the request of the earlier one; when the later request
\* has been answered there is exactly one sealed assistant message, and it
\* answers the later question.
C22_NewerCancelsOlder ==
    /\ chatOp # "ignored"
    /\ (/\ chatOp = "started"
        /\ Len(calls) = 2
        /\ calls[2].pc = "sealed"
        /\ ~inProgress(calls[1]))
       => /\ calls[1].pc = "cancelled"
          /\ \E i \in sealedAnswers :
                /\ sealedAnswers = {i}
                /\ messages[i].content = Concat(AnswerDeltas(calls[2].text))

\* C23: submit(text) changes nothing when a submission of this session is
\* already in flight or when text is blank after trimming: a step in which a
\* submit appends its message, clears the input or starts its turn is taken
\* with no submission in flight and a text that is not blank.
C23_SubmitGuard ==
    [][Len(calls') > Len(calls) =>
          /\ ~busy
          /\ Trim(calls'[Len(calls')].text) # <<>>]_vars

\* the placeholder of call c is in the message list, not sealed
unsealedPlaceholder(c) ==
    \E i \in 1..Len(messages) :
        /\ messages[i].id = calls[c].assistantId
        /\ messages[i].role = "assistant"
        /\ ~messages[i].isComplete

\* C24: the placeholder a submit appended is resolved when its request ends:
\* sealed with the answer and the sources on success; on a failure other than
\* a cancellation replaced by an error message, so that no unsealed
\* placeholder of a failed request remains in the message list.
C24_PlaceholderResolved ==
    \A c \in 1..Len(calls) :
        /\ calls[c].pc = "failed" => ~unsealedPlaceholder(c)
        /\ (Live /\ calls[c].pc = "sealed") =>
              \E i \in 1..Len(messages) :
                  /\ messages[i].id = calls[c].assistantId
                  /\ messages[i].isComplete
                  /\ messages[i].content = Concat(AnswerDeltas(calls[c].text))
                  /\ messages[i].sources = AnswerSources(calls[c].text)

\* the step ends submitUserMessage for call c, whose request was aborted
endsAborted(c) ==
    /\ calls[c].aborted
    /\ inProgress(calls[c])
    /\ ~inProgress(calls'[c])

\* C25: a cancelled chat request (aborted by the teardown or by a newer
\* request) appends no error message and marks no message isError: the
\* cancellation is told from every other failure and leaves the messages and
\* the input as they were.
C25_CancellationSilent ==
    [][\A c \in 1..Len(calls) :
          endsAborted(c) => /\ messages' = messages
                            /\ input' = input]_vars

\* the step is the catch of submitUserMessage for call c, whose request was
\* answered with HTTP 404 and not aborted
catchesNotFound(c) ==
    /\ calls[c].pc = "errbody"
    /\ calls[c].status = HTTP_NOT_FOUND
    /\ ~calls[c].aborted
    /\ calls'[c].pc = "failed"

\* C29: the error askQuestion raises for an expired session (HTTP 404) carries
\* the code 'session_not_found', and the panel then shows the expired-session
\* message and not the generic failure message.
C29_ExpiredSessionMessage ==
    [][\A c \in 1..Len(calls) :
          catchesNotFound(c) =>
              /\ calls'[c].code = "session_not_found"
              /\ Live => /\ Len(messages') = Len(messages) + 1
                          /\ messages'[Len(messages')].isError
                          /\ messages'[Len(messages')].content # GENERIC_ERROR]_vars

welcomes(msgs) == {i \in 1..Len(msgs) : msgs[i].id = WELCOME_ID}

\* the step is the mount of the panel over a stored history that is not empty
restoresHistory ==
    /\ chatPhase = "new"
    /\ chatPhase' = "mounted"
    /\ chatStorage.kind = "list"
    /\ chatStorage.items # <<>>

\* C26: the message list never holds more than one message with id
\* 'welcome'; a welcome message is inserted only once the restore from
\* storage is flagged complete, into an empty list, and the mount over a
\* stored history that is not empty leaves exactly that history, with or
\* without a welcome in it.
C26_OneWelcome ==
    /\ [](Cardinality(welcomes(messages)) <= 1)
    /\ [][/\ restoresHistory => messages' = chatStorage.items
          /\ (welcomes(messages) = {} /\ welcomes(messages') # {} /\ ~restoresHistory)
                => /\ initializedFromStorage'
                   /\ messages = <<>>
                   /\ messages' = <<welcomeMsg>>]_vars

\* the panel has restored five stored messages, the first of them the welcome,
\* of a session whose result is there
C26_Witness ==
    /\ chatPhase = "mounted"
    /\ initializedFromStorage
    /\ hasResult
    /\ Len(messages) = 5
    /\ welcomes(messages) = {1}

\* C27: playTTS is never started for the welcome message, never for a message
\* that is not sealed or that is an error message, and at most once for any
\* message id, whatever the message updates and the voice toggles.
C27_PlayOncePerSealedMessage ==
    /\ [](/\ \A i \in 1..Len(played) : played[i] # WELCOME_ID
          /\ \A i, j \in 1..Len(played) : played[i] = played[j] => i = j)
    /\ [][played' # played =>
            \E i \in 1..Len(messages') :
                /\ messages'[i].id = played'[Len(played')]
                /\ messages'[i].isComplete
                /\ ~messages'[i].isError]_vars

\* two answers have been read aloud, one after the other, and the voice has
\* been switched off since
C27_Witness ==
    /\ Len(played) = 2
    /\ ~isVoiceOn
    /\ Len(calls) = 2
    /\ calls[2].pc = "sealed"

\* C28: once the panel is torn down every chat request in flight has been
\* aborted and no audio is playing or starts playing, also when a
\* speech-generation request was in flight at the teardown.
C28_TeardownStopsAll ==
    chatPhase = "unmounted" =>
        /\ playing = {}
        /\ \A c \in 1..Len(calls) : ~outstanding(calls[c])

-----------------------------------------------------------------------------
(* services/api: the loop of askQuestion over the streamed chat response,    *)
(* over every stream of events and every way the network cuts it into chunks *)

MaxEvents == 2

QUOTE == "\""

BACKSLASH == "\\"

\* the characters of a JSON string literal that stand for the text
RECURSIVE JsonEscape(_)
JsonEscape(text) ==
    IF text = <<>> THEN <<>>
    ELSE (IF Head(text) = NL THEN <<BACKSLASH, "n">>
          ELSE IF Head(text) \in {QUOTE, BACKSLASH} THEN <<BACKSLASH, Head(text)>>
          ELSE <<Head(text)>>) \o JsonEscape(Tail(text))

JsonString(text) == <<QUOTE>> \o JsonEscape(text) \o <<QUOTE>>

\* JSON.stringify of an object with the one key `key`
JsonObject(key, value) == <<"{">> \o JsonString(key) \o <<":">> \o value \o <<"}">>

\* s is the inside of a JSON string literal
RECURSIVE WellEscaped(_)
WellEscaped(s) ==
    IF s = <<>> THEN TRUE
    ELSE IF Head(s) = BACKSLASH
         THEN /\ Len(s) >= 2
              /\ s[2] \in {"n", QUOTE, BACKSLASH}
              /\ WellEscaped(SubSeq(s, 3, Len(s)))
    ELSE IF Head(s) \in {QUOTE, NL} THEN FALSE
    ELSE WellEscaped(Tail(s))

RECURSIVE JsonUnescape(_)
JsonUnescape(s) ==
    IF s = <<>> THEN <<>>
    ELSE IF Head(s) = BACKSLASH
         THEN <<IF s[2] = "n" THEN NL ELSE s[2]>> \o JsonUnescape(SubSeq(s, 3, Len(s)))
    ELSE <<Head(s)>> \o JsonUnescape(Tail(s))

IsJsonString(s) ==
    /\ Len(s) >= 2
    /\ s[1] = QUOTE
    /\ s[Len(s)] = QUOTE
    /\ WellEscaped(SubSeq(s, 2, Len(s) - 1))

StringValue(s) == JsonUnescape(SubSeq(s, 2, Len(s) - 1))

\* an array of at most one string
IsJsonArray(s) ==
    /\ Len(s) >= 2
    /\ s[1] = "["
    /\ s[Len(s)] = "]"
    /\ Len(s) > 2 => IsJsonString(SubSeq(s, 2, Len(s) - 1))

ArrayValue(s) == IF Len(s) = 2 THEN <<>> ELSE <<StringValue(SubSeq(s, 2, Len(s) - 1))>>

\* s is the object with the one key `key`: the text of its value
HasKey(s, key) ==
    /\ StartsWith(s, <<"{">> \o JsonString(key) \o <<":">>)
    /\ s[Len(s)] = "}"

ValueOf(s, key) == SubSeq(s, Len(key) + 5, Len(s) - 1)

TEXT_KEY == <<"t", "e", "x", "t">>

SOURCES_KEY == <<"s", "o", "u", "r", "c", "e", "s">>

ERROR_KEY == <<"e", "r", "r", "o", "r">>

\* what JSON.parse throws
SyntaxError == [ok |-> FALSE, text |-> <<>>, sources |-> <<>>, error |-> <<>>]

\* JSON.parse(dataStr) of the objects the chat stream carries; a property
\* that is missing is <<>>, one that is there is <<its value>>
ParseData(dataStr) ==
    IF HasKey(dataStr, TEXT_KEY) /\ IsJsonString(ValueOf(dataStr, TEXT_KEY))
    THEN [SyntaxError EXCEPT !.ok = TRUE,
                             !.text = <<StringValue(ValueOf(dataStr, TEXT_KEY))>>]
    ELSE IF HasKey(dataStr, ERROR_KEY) /\ IsJsonString(ValueOf(dataStr, ERROR_KEY))
    THEN [SyntaxError EXCEPT !.ok = TRUE,
                             !.error = <<StringValue(ValueOf(dataStr, ERROR_KEY))>>]
    ELSE IF HasKey(dataStr, SOURCES_KEY) /\ IsJsonArray(ValueOf(dataStr, SOURCES_KEY))
    THEN [SyntaxError EXCEPT !.ok = TRUE,
                             !.sources = <<ArrayValue(ValueOf(dataStr, SOURCES_KEY))>>]
    ELSE SyntaxError

\* a property holding a string is truthy
TruthyString(prop) == prop # <<>> /\ prop[1] # <<>>

DATA_SPACE == <<"d", "a", "t", "a", ":", " ">>

DONE == <<"[", "D", "O", "N", "E", "]">>

\* the events of the chat stream the backend writes
TextEvent(delta) == [kind |-> "text", value |-> delta]
SourcesEvent == [kind |-> "sources", value |-> <<"p">>]
ErrorEvent == [kind |-> "error", value |-> <<"x">>]
DoneEvent == [kind |-> "done", value |-> <<>>]
CutEvent == [kind |-> "cut", value |-> <<>>]
PingEvent == [kind |-> "ping", value |-> <<>>]

\* the text deltas an answer is streamed in
Deltas == {<<"A">>, <<NL, NL>>, <<>>}

AskEvents ==
    {TextEvent(d) : d \in Deltas}
        \cup {SourcesEvent, ErrorEvent, DoneEvent, CutEvent, PingEvent}

\* the lines of one event on the wire, closed by a blank line
EventText(event) ==
    (CASE event.kind = "text" ->
              DATA_SPACE \o JsonObject(TEXT_KEY, JsonString(event.value))
       [] event.kind = "sources" ->
              DATA_SPACE \o JsonObject(SOURCES_KEY,
                                       <<"[">> \o JsonString(event.value) \o <<"]">>)
       [] event.kind = "error" ->
              DATA_SPACE \o JsonObject(ERROR_KEY, JsonString(event.value))
       [] event.kind = "done" -> DATA_SPACE \o DONE
       [] event.kind = "cut" -> DATA_SPACE \o <<"{", QUOTE, "t">>
       [] OTHER -> <<":", "k">>)
        \o <<NL, NL>>

RECURSIVE AskStreamText(_)
AskStreamText(events) ==
    IF events = <<>> THEN <<>>
    ELSE EventText(Head(events)) \o AskStreamText(Tail(events))

\* buffer.split('\n\n')
RECURSIVE SplitBlank(_)
SplitBlank(text) ==
    IF \A i \in 1..(Len(text) - 1) : ~(text[i] = NL /\ text[i + 1] = NL)
    THEN <<text>>
    ELSE LET i == CHOOSE k \in 1..(Len(text) - 1) :
                      /\ text[k] = NL /\ text[k + 1] = NL
                      /\ \A j \in 1..(k - 1) : ~(text[j] = NL /\ text[j + 1] = NL)
         IN <<SubSeq(text, 1, i - 1)>> \o SplitBlank(SubSeq(text, i + 2, Len(text)))

\* the first argument of onChunk
chunkArgDelta(full, delta) == delta

chunkArg(full, delta) == full

\* the body of `for (const part of parts)` on the locals st
handlePart(st, part) ==
    IF ~StartsWith(part, DATA_SPACE) THEN st
    ELSE LET dataStr == Trim(SubSeq(part, 7, Len(part)))
             data == ParseData(dataStr)
             withText ==
                 IF TruthyString(data.text)
                 THEN [st EXCEPT !.fullText = st.fullText \o data.text[1],
                                 !.chunkCalls =
                                     Append(st.chunkCalls,
                                            [fullText |-> chunkArg(st.fullText \o data.text[1],
                                                                   data.text[1]),
                                             delta |-> data.text[1]])]
                 ELSE st
         IN IF dataStr = DONE \/ dataStr = <<>> THEN st
            ELSE IF ~data.ok THEN st
            ELSE IF TruthyString(data.error) THEN st
            ELSE IF data.sources # <<>>
                 THEN [withText EXCEPT !.finalSources = data.sources]
            ELSE withText

RECURSIVE handleParts(_, _)
handleParts(st, parts) ==
    IF parts = <<>> THEN st
    ELSE handleParts(handlePart(st, Head(parts)), Tail(parts))

\* one turn of the loop: reader.read() gives the next n characters
AskRead ==
    /\ askReturned = <<>>
    /\ askRest # <<>>
    /\ \E n \in 1..Len(askRest) :
          LET parts == SplitBlank(askBuffer \o SubSeq(askRest, 1, n))
              st == handleParts([fullText |-> fullText, finalSources |-> finalSources,
                                 chunkCalls |-> chunkCalls],
                                SubSeq(parts, 1, Len(parts) - 1))
          IN /\ askRest' = SubSeq(askRest, n + 1, Len(askRest))
             /\ askBuffer' = parts[Len(parts)]
             /\ fullText' = st.fullText
             /\ finalSources' = st.finalSources
             /\ chunkCalls' = st.chunkCalls
    /\ UNCHANGED <<appVars, panelVars, tabVars, askFrames, askReturned>>

\* reader.read() gives done: the loop ends and askQuestion returns
AskDone ==
    /\ askReturned = <<>>
    /\ askRest = <<>>
    /\ askReturned' = <<[answer |-> fullText,
                         sources |-> IF finalSources # <<>> THEN finalSources[1]
                                     ELSE <<>>]>>
    /\ UNCHANGED <<appVars, panelVars, tabVars, askFrames, askRest, askBuffer, fullText,
                   finalSources, chunkCalls>>

AskInit ==
    /\ StoreIdle
    /\ NoStream
    /\ NoUpload
    /\ NoFile
    /\ NoPanel
    /\ NoOtherPage
    /\ askFrames \in SeqsUpTo(AskEvents, MaxEvents) \ {<<>>}
    /\ askRest = AskStreamText(askFrames)
    /\ askBuffer = <<>>
    /\ fullText = <<>>
    /\ finalSources = <<>>
    /\ chunkCalls = <<>>
    /\ askReturned = <<>>

AskNext ==
    \/ AskRead
    \/ AskDone

\* askQuestion reading a streamed response
SpecAsk == AskInit /\ [][AskNext]_vars

-----------------------------------------------------------------------------
(* Properties of askQuestion *)

\* the text deltas of the events of the stream, in order
RECURSIVE textDeltas(_)
textDeltas(events) ==
    IF events = <<>> THEN <<>>
    ELSE (IF Head(events).kind = "text" /\ Head(events).value # <<>>
          THEN <<Head(events).value>> ELSE <<>>) \o textDeltas(Tail(events))

\* C30: the k-th call of onChunk gets the concatenation of the first k text
\* deltas of the stream (the running answer, not the delta), and the answer
\* askQuestion returns is the concatenation of all the text deltas.  A delta
\* is a text event that carries text; an event with empty text adds nothing.
C30_CumulativeChunks ==
    /\ Len(chunkCalls) <= Len(textDeltas(askFrames))
    /\ \A k \in 1..Len(chunkCalls) :
          chunkCalls[k].fullText = Concat(SubSeq(textDeltas(askFrames), 1, k))
    /\ askReturned # <<>> =>
          /\ Len(chunkCalls) = Len(textDeltas(askFrames))
          /\ askReturned[1].answer = Concat(textDeltas(askFrames))

\* askQuestion has returned an answer it got in two deltas, the first of them
\* two line breaks
C30_Witness ==
    /\ askReturned # <<>>
    /\ Len(chunkCalls) = 2
    /\ chunkCalls[1].delta = <<NL, NL>>
    /\ askReturned[1].answer = <<NL, NL, "A">>

-----------------------------------------------------------------------------
(* Further properties of the session store and of the upload *)

\* C31: an UPDATE_SESSION for an id that is not in the collection leaves the
\* sessions and activeSessionId as they were, adds no session, and the
\* dispatch returns (no error is raised).
C31_UpdateMissingIsNoOp ==
    /\ (last.type = ACTION_TYPES.UPDATE_SESSION
        /\ ~hasId(last.prev.sessions, last.action.payload.session_id))
       => current = last.prev
    /\ \A p \in UpdatePayloads :
          ~hasId(sessions, p.session_id) =>
              analysisReducer(current, [type |-> ACTION_TYPES.UPDATE_SESSION,
                                        payload |-> p]) = current

\* an UPDATE_SESSION of an id that is absent while the other session is there
\* and active
C31_Witness ==
    /\ last.type = ACTION_TYPES.UPDATE_SESSION
    /\ ~hasId(last.prev.sessions, last.action.payload.session_id)
    /\ Len(sessions) = 1
    /\ activeSessionId = sessions[1].session_id
    /\ storage = Stored(sessions)

\* C32: a session has a result only if its status is 'complete'.
C32_ResultOnlyWhenComplete ==
    \A i \in 1..Len(sessions) :
        Truthy(Get(sessions[i], "result")) => Get(sessions[i], "status") = "complete"

\* C33: the upload does not need the X-Session-ID header: startAnalysis never
\* gives up for want of a session id after reading some of a stream whose
\* events carry session_id, and once it is past the first read the session
\* exists under the id of the events and every update is keyed by that id.
C33_HeaderNotNeeded ==
    /\ ~(pc = "failed" /\ lastRead.kind = "chunk")
    /\ pc \in {"loop", "stopped"} =>
          /\ sid = SID
          /\ hasId(sessions, SID)
          /\ \A i \in 1..Len(sessions) : sessions[i].session_id = SID

\* uploadDocument has resolved: the backend accepted the upload
accepted ==
    \/ pc \in {"first", "loop", "stopped"}
    \/ pc = "failed" /\ (net = "dropped" \/ lastRead.kind # "none")

\* C34: from the moment the upload is accepted, before the session id is
\* confirmed from the network and before any progress event is applied, the
\* store holds a session entry for it.
C34_SessionOnAcceptance ==
    accepted => sessions # <<>>

\* the background loop gets a chunk from which readAllProgress returns no event
emptyLoopRead ==
    /\ pc = "loop"
    /\ lastRead' # lastRead
    /\ lastRead'.kind = "chunk"
    /\ lastRead'.events = <<>>

\* C35: a read of the background loop that yields zero events from a chunk
\* (part of a frame, or comments only) does not stop the loop: zero events end
\* the ingestion only when the stream has ended.
C35_EmptyChunkKeepsReading ==
    [][emptyLoopRead => pc' = "loop"]_vars

\* the status request r of a poll loop that has been cancelled is answered and
\* pollStatus goes on after its await
cancelledReturns(r) ==
    /\ r \in requests
    /\ ~r.live
    /\ r.state = "ok"
    /\ r \notin requests'
    /\ UNCHANGED <<sseVars, uploadVars, page>>

\* C36: a poll loop that has been cancelled dispatches no further
\* UpdateSession, also when its status request was under way at the
\* cancellation: the answer to that request changes no session.
C36_CancelledPollIsSilent ==
    [][\A r \in requests : cancelledReturns(r) => sessions' = sessions]_vars

\* how many of the first n sessions of a list have the id
countId(list, n, id) == Cardinality({k \in 1..n : list[k].session_id = id})

\* C37: RemoveSession(id) deletes exactly the entry with that id, keeps every
\* other session unchanged and in the same relative order, and sets
\* activeSessionId to null if and only if it was equal to id.
C37_RemoveFrame ==
    last.type = ACTION_TYPES.REMOVE_SESSION =>
        LET id == last.action.payload
            before == last.prev.sessions
        IN /\ ~hasId(sessions, id)
           /\ Len(sessions) = Len(before) - countId(before, Len(before), id)
           /\ \A i \in 1..Len(before) :
                 before[i].session_id # id
                     => sessions[i - countId(before, i, id)] = before[i]
           /\ activeSessionId = IF last.prev.activeSessionId = id THEN Null
                                ELSE last.prev.activeSessionId

\* the first of two sessions has been removed while the second was the active
\* one, and the second is still there and active
C37_Witness ==
    /\ last.type = ACTION_TYPES.REMOVE_SESSION
    /\ Len(last.prev.sessions) = 2
    /\ last.prev.sessions[1].session_id = last.action.payload
    /\ Len(sessions) = 1
    /\ activeSessionId = sessions[1].session_id

\* C38: activeSessionId is null or the id of a session of the collection.
C38_ActiveIsPresent ==
    activeSessionId = Null \/ hasId(sessions, activeSessionId)

-----------------------------------------------------------------------------
(* Further properties of askQuestion *)

\* C39: when the chat stream delivers a chunk with an error field,
\* askQuestion fails: it does not return an answer built from the text
\* received so far (which the panel would seal as a successful answer).
C39_StreamErrorRejects ==
    (\E i \in 1..Len(askFrames) : askFrames[i].kind = "error") => askReturned = <<>>

-----------------------------------------------------------------------------
(* Two pages (tabs), each with its own AnalysisProvider, over one            *)
(* localStorage                                                              *)

\* the second page's provider mounts: load effect, then the save effect
OtherMount ==
    /\ ~otherPage.mounted
    /\ LET state == [sessions |-> otherPage.sessions,
                     activeSessionId |-> otherPage.activeSessionId]
           new == IF storage.kind = "list"
                  THEN dispatchAll(state, cleaned(storage.items, Now))
                  ELSE state
       IN /\ otherPage' = [sessions |-> new.sessions,
                           activeSessionId |-> new.activeSessionId, mounted |-> TRUE]
          /\ storage' = Stored(new.sessions)
    /\ UNCHANGED <<sessions, activeSessionId, mounted, last, sseVars, netVars,
                   uploadVars, pollVars, submitVars, panelVars, askVars>>

\* the second page dispatches ADD_SESSION, and its save effect runs when its
\* state.sessions changed
OtherAddSession ==
    /\ otherPage.mounted
    /\ \E payload \in AddPayloads :
          LET state == [sessions |-> otherPage.sessions,
                        activeSessionId |-> otherPage.activeSessionId]
              action == [type |-> ACTION_TYPES.ADD_SESSION, payload |-> payload]
              new == analysisReducer(state, action)
          IN /\ otherPage' = [sessions |-> new.sessions,
                              activeSessionId |-> new.activeSessionId,
                              mounted |-> TRUE]
             /\ storage' = IF sessionsReplaced(state, action)
                           THEN Stored(new.sessions) ELSE storage
    /\ UNCHANGED <<sessions, activeSessionId, mounted, last, sseVars, netVars,
                   uploadVars, pollVars, submitVars, panelVars, askVars>>

TabsNext ==
    \/ Mount
    \/ AddSession
    \/ OtherMount
    \/ OtherAddSession

\* two pages that mount and add sessions, in any order
SpecTabs == StoreInit /\ [][TabsNext]_vars

\* C40: no page's save erases a session another page has persisted: every
\* session a mounted page holds, and so has saved, is in localStorage after
\* whatever transition and save the other page makes.
C40_NoSaveErasesAnother ==
    /\ mounted =>
          \A i \in 1..Len(sessions) : hasId(storage.items, sessions[i].session_id)
    /\ otherPage.mounted =>
          \A i \in 1..Len(otherPage.sessions) :
              hasId(storage.items, otherPage.sessions[i].session_id)

====
